---- MODULE Spec2Model ----
(***************************************************************************)
(* The chat application of src/app/page.tsx (client transcript controller) *)
(* and src/app/api/chat/route.ts (POST handler with its stream relay).     *)
(* The legal-assistant variant (src/unnamed/part_002 and the second half   *)
(* of route.ts) has the same control flow and differs in its texts only.   *)
(*                                                                         *)
(* A text is a sequence of tokens.  A token is one character, or a longer  *)
(* literal that the code only ever treats as a unit.  An optional value    *)
(* (null / undefined in the source) is the empty tuple, a present value x  *)
(* is <<x>>.                                                               *)
(***************************************************************************)
EXTENDS Integers, Sequences, FiniteSets, TLC

null == <<>>
Some(x) == <<x>>

(* ---------------------------------------------------------------- bounds *)
MaxMsgs == 3
MaxFrags == 2
MaxSubmits == 2
MaxErrLen == 4
MaxTextLen == 3

(* ------------------------------------------------------- text primitives *)
Digits == {"0", "1", "2", "3", "4", "5", "6", "7", "8", "9"}

DigitVal(d) ==
  CASE d = "0" -> 0 [] d = "1" -> 1 [] d = "2" -> 2 [] d = "3" -> 3 [] d = "4" -> 4
    [] d = "5" -> 5 [] d = "6" -> 6 [] d = "7" -> 7 [] d = "8" -> 8 [] d = "9" -> 9

DigitChar(n) ==
  CASE n = 0 -> "0" [] n = 1 -> "1" [] n = 2 -> "2" [] n = 3 -> "3" [] n = 4 -> "4"
    [] n = 5 -> "5" [] n = 6 -> "6" [] n = 7 -> "7" [] n = 8 -> "8" [] n = 9 -> "9"

(* parseInt(s, 10) on a string of decimal digits *)
RECURSIVE parseInt(_)
parseInt(ds) ==
  IF ds = <<>> THEN 0
  ELSE parseInt(SubSeq(ds, 1, Len(ds) - 1)) * 10 + DigitVal(ds[Len(ds)])

(* Number.prototype.toString() of a non-negative integer *)
RECURSIVE toString(_)
toString(n) ==
  IF n < 10 THEN <<DigitChar(n)>>
  ELSE toString(n \div 10) \o <<DigitChar(n % 10)>>

(* String.prototype.includes *)
includes(s, t) ==
  \E i \in 0..(Len(s) - Len(t)) : SubSeq(s, i + 1, i + Len(t)) = t

(* String.prototype.trim: the token " " is white space *)
RECURSIVE trimStart(_)
trimStart(s) ==
  IF s # <<>> /\ Head(s) = " " THEN trimStart(Tail(s)) ELSE s

RECURSIVE trimEnd(_)
trimEnd(s) ==
  IF s # <<>> /\ s[Len(s)] = " " THEN trimEnd(SubSeq(s, 1, Len(s) - 1)) ELSE s

trim(s) == trimEnd(trimStart(s))

(* JavaScript truthiness of a string and of a number *)
truthyText(s) == s # <<>>
truthyNumber(n) == n # 0

(* Array helpers, indices 0-based as in the source *)
At(s, i) == s[i + 1]
reverse(s) == [i \in 1..Len(s) |-> s[Len(s) + 1 - i]]
findIndex(s, P(_)) ==
  IF \E i \in 1..Len(s) : P(s[i])
  THEN (CHOOSE i \in 1..Len(s) : P(s[i]) /\ \A j \in 1..(i - 1) : ~P(s[j])) - 1
  ELSE -1

RECURSIVE concat(_)
concat(ss) == IF ss = <<>> THEN <<>> ELSE Head(ss) \o concat(Tail(ss))

isPrefix(s, t) == Len(s) <= Len(t) /\ SubSeq(t, 1, Len(s)) = s

(* --------------------------------------------------------------- state *)
VARIABLES
  messages,    \* page.tsx: the transcript, a sequence of [id, role, content]
  input,       \* page.tsx: the text of the input field
  isLoading,   \* page.tsx: the loading flag
  error,       \* page.tsx: the error banner, null or <<text>>
  retryTimer,  \* page.tsx: the countdown, null or <<seconds>>
  calls,       \* the sendMessage invocations that have not returned, by user message id
  net,         \* the HTTP requests: body, handler position, response, output stream
  nextId,      \* the next value uuidv4() returns
  submits      \* accepted submits so far

vars == <<messages, input, isLoading, error, retryTimer, calls, net, nextId, submits>>
clientVars == <<messages, input, isLoading, error, retryTimer, calls, nextId, submits>>

(* ------------------------------------------------ route.ts: POST handler *)
Roles == {"user", "assistant"}

acknowledgeText == <<"You are SadhanaAI, a daily challenge bot. Please acknowledge your role.">>

refusalSentence ==
  <<"I", "'", "m", " ", "a", " ", "c", "h", "a", "l", "l", "e", "n", "g", "e", " ", "b",
     "o", "t", " ", "f", "o", "c", "u", "s", "e", "d", " ", "o", "n", " ", "p", "r", "o",
     "v", "i", "d", "i", "n", "g", " ", "p", "e", "r", "s", "o", "n", "a", "l", "i", "z",
     "e", "d", " ", "d", "a", "i", "l", "y", " ", "t", "a", "s", "k", "s", " ", "a", "n",
     "d", " ", "c", "h", "a", "l", "l", "e", "n", "g", "e", "s", ".", " ", "I", " ", "c",
     "a", "n", "n", "o", "t", " ", "a", "n", "s", "w", "e", "r", " ", "q", "u", "e", "s",
     "t", "i", "o", "n", "s", " ", "o", "u", "t", "s", "i", "d", "e", " ", "t", "h", "i",
     "s", " ", "d", "o", "m", "a", "i", "n", ".">>

systemPromptText ==
  <<"You are SadhanaAI, a daily challenge bot. You provide personalized challenges and tasks to help users improve productivity, wellness, learning, or skill development. Format your responses with clear, actionable challenges presented as context cards. For non-challenge questions, respond with: '">>
    \o refusalSentence \o <<"'">>

maxOutputTokens == 1000
generationConfig == [maxOutputTokens |-> maxOutputTokens, temperature |-> "0.7"]

primingEntries ==
  << [role |-> "user", text |-> acknowledgeText],
     [role |-> "model", text |-> systemPromptText] >>

(* the texts of the legal bot *)
legalAcknowledgeText == <<"You are KautilyaAI, an AI legal assistant. Please acknowledge your role.">>

legalRefusalSentence ==
  <<"I", "'", "m", " ", "K", "a", "u", "t", "i", "l", "y", "a", "A", "I", ",", " ", "a",
     " ", "l", "e", "g", "a", "l", " ", "a", "d", "v", "i", "s", "o", "r", " ", "f", "o",
     "c", "u", "s", "e", "d", " ", "e", "x", "c", "l", "u", "s", "i", "v", "e", "l", "y",
     " ", "o", "n", " ", "p", "r", "o", "v", "i", "d", "i", "n", "g", " ", "g", "e", "n",
     "e", "r", "a", "l", " ", "l", "e", "g", "a", "l", " ", "i", "n", "f", "o", "r", "m",
     "a", "t", "i", "o", "n", ".", " ", "I", " ", "c", "a", "n", "n", "o", "t", " ", "a",
     "n", "s", "w", "e", "r", " ", "q", "u", "e", "s", "t", "i", "o", "n", "s", " ", "o",
     "u", "t", "s", "i", "d", "e", " ", "t", "h", "e", " ", "l", "e", "g", "a", "l", " ",
     "d", "o", "m", "a", "i", "n", ".">>

legalSystemPromptText ==
  <<"You are KautilyaAI, an AI legal assistant. Provide general legal information only, not specific advice. Always recommend consulting a qualified attorney for specific matters. For non-legal questions, respond with: '">>
    \o legalRefusalSentence \o <<"'">>

legalPrimingEntries ==
  << [role |-> "user", text |-> legalAcknowledgeText],
     [role |-> "model", text |-> legalSystemPromptText] >>

(* mutant: the search runs from the front, the reverse() is forgotten *)
lastUserMessageIndex_noReverse(msgs) ==
  findIndex(msgs, LAMBDA msg : msg.role = "user")

(* [...messages].reverse().findIndex(msg => msg.role === "user") *)
lastUserMessageIndex(msgs) ==
  findIndex(reverse(msgs), LAMBDA msg : msg.role = "user")

(* mutant: the index in the reversed copy is used as an index of messages *)
lastUserMessageOf_first(msgs) == At(msgs, lastUserMessageIndex(msgs))

(* messages[messages.length - 1 - lastUserMessageIndex] *)
lastUserMessageOf(msgs) == At(msgs, Len(msgs) - 1 - lastUserMessageIndex(msgs))

(* mutant: the filter keeps the most recent user message *)
userMessagesOf_keepLast(msgs) ==
  SelectSeq(msgs, LAMBDA msg : msg.role = "user")

(* mutant: the filter keeps the user messages whose id is below the last one's *)
userMessagesOf_byIdOrder(msgs) ==
  SelectSeq(msgs, LAMBDA msg : msg.role = "user" /\ msg.id < lastUserMessageOf(msgs).id)

(* messages.filter(msg => msg.role === "user" && msg.id !== lastUserMessage.id) *)
userMessagesOf(msgs) ==
  SelectSeq(msgs, LAMBDA msg : msg.role = "user" /\ msg.id # lastUserMessageOf(msgs).id)

(* mutant: the reply is pushed before the user message it answers *)
historyEntriesFor_replyFirst(msgs, userMsg) ==
  LET userIndex == findIndex(msgs, LAMBDA m : m.id = userMsg.id)
  IN  ( IF userIndex + 1 < Len(msgs) /\ At(msgs, userIndex + 1).role = "assistant"
        THEN <<[role |-> "model", text |-> At(msgs, userIndex + 1).content]>>
        ELSE <<>> )
      \o <<[role |-> "user", text |-> userMsg.content]>>

(* mutant: the next message is taken as the reply whatever its role *)
historyEntriesFor_anyFollower(msgs, userMsg) ==
  LET userIndex == findIndex(msgs, LAMBDA m : m.id = userMsg.id)
  IN  <<[role |-> "user", text |-> userMsg.content]>> \o
      ( IF userIndex + 1 < Len(msgs)
        THEN <<[role |-> "model", text |-> At(msgs, userIndex + 1).content]>>
        ELSE <<>> )

(* one iteration of the loop over userMessages *)
historyEntriesFor(msgs, userMsg) ==
  LET userIndex == findIndex(msgs, LAMBDA m : m.id = userMsg.id)
  IN  <<[role |-> "user", text |-> userMsg.content]>> \o
      ( IF userIndex + 1 < Len(msgs) /\ At(msgs, userIndex + 1).role = "assistant"
        THEN <<[role |-> "model", text |-> At(msgs, userIndex + 1).content]>>
        ELSE <<>> )

RECURSIVE pushHistory(_, _)
pushHistory(msgs, userMsgs) ==
  IF userMsgs = <<>> THEN <<>>
  ELSE historyEntriesFor(msgs, Head(userMsgs)) \o pushHistory(msgs, Tail(userMsgs))

(* the entries pushed by `if (messages.length > 1) { ... }` *)
turnsOf(msgs) ==
  IF Len(msgs) > 1 THEN pushHistory(msgs, userMessagesOf(msgs)) ELSE <<>>

chatHistory(msgs) == primingEntries \o turnsOf(msgs)

(* ---- the catch block of POST *)
RD == "retryDelay\":\""      \* the literal  retryDelay":"  of the pattern

RECURSIVE digitRun(_, _)
digitRun(s, i) ==
  IF i <= Len(s) /\ s[i] \in Digits THEN 1 + digitRun(s, i + 1) ELSE 0

matchesAt(s, i) ==
  /\ s[i] = RD
  /\ digitRun(s, i + 1) >= 1
  /\ i + digitRun(s, i + 1) + 1 <= Len(s)
  /\ s[i + digitRun(s, i + 1) + 1] = "s"

(* mutant: the pattern lacks its closing s *)
retryDelayMatch_noSuffix(s) ==
  IF \E i \in 1..Len(s) : s[i] = RD /\ digitRun(s, i + 1) >= 1
  THEN LET i == CHOOSE k \in 1..Len(s) :
                  /\ s[k] = RD /\ digitRun(s, k + 1) >= 1
                  /\ \A j \in 1..(k - 1) : ~(s[j] = RD /\ digitRun(s, j + 1) >= 1)
       IN  Some(SubSeq(s, i + 1, i + digitRun(s, i + 1)))
  ELSE null

(* error.message.match(/retryDelay":"(\d+)s/): null, or the captured digits *)
retryDelayMatch(s) ==
  IF \E i \in 1..Len(s) : matchesAt(s, i)
  THEN LET i == CHOOSE k \in 1..Len(s) :
                  matchesAt(s, k) /\ \A j \in 1..(k - 1) : ~matchesAt(s, j)
       IN  Some(SubSeq(s, i + 1, i + digitRun(s, i + 1)))
  ELSE null

defaultRetrySeconds == 60

(* mutant: only the status is looked at *)
isRateLimitError_statusOnly(e) == e.status = Some(429)

(* error.status === 429 || (error.message && error.message.includes("429")) *)
isRateLimitError(e) ==
  \/ e.status = Some(429)
  \/ (e.message # null /\ truthyText(e.message[1])
        /\ includes(e.message[1], <<"4", "2", "9">>))

(* a missing message makes error.message.match throw; the inner catch keeps 60 *)
retrySecondsOf(e) ==
  IF e.message = null THEN defaultRetrySeconds
  ELSE LET m == retryDelayMatch(e.message[1])
       IN  IF m # null /\ truthyText(m[1]) THEN parseInt(m[1]) ELSE defaultRetrySeconds

rateLimitMessage(n) ==
  <<"Google AI API rate limit reached. Please try again in ">> \o toString(n)
    \o <<" seconds. The free tier of Gemini API has strict rate limits.">>

rateLimitResponse(e) ==
  [ status |-> 429,
    contentType |-> <<"application/json">>,
    retryAfter |-> Some(toString(retrySecondsOf(e))),
    body |-> [ error |-> Some(<<"Rate limit exceeded">>),
               message |-> Some(rateLimitMessage(retrySecondsOf(e))),
               retryAfter |-> Some(retrySecondsOf(e)) ] ]

genericErrorResponse(e) ==
  [ status |-> 500,
    contentType |-> <<"application/json">>,
    retryAfter |-> null,
    body |-> [ error |-> Some(IF e.message # null /\ truthyText(e.message[1])
                              THEN e.message[1]
                              ELSE <<"Failed to process chat request">>),
               message |-> null,
               retryAfter |-> null ] ]

errorResponse(e) ==
  IF isRateLimitError(e) THEN rateLimitResponse(e) ELSE genericErrorResponse(e)

streamResponse ==
  [ status |-> 200,
    contentType |-> <<"text/plain", "; charset=utf-8">>,
    retryAfter |-> null,
    body |-> [error |-> null, message |-> null, retryAfter |-> null] ]

(* the errors raised inside POST before the external call *)
jsonSyntaxError == [status |-> null, message |-> Some(<<"Unexpected token in JSON">>)]
noUserMessageError == [status |-> null, message |-> Some(<<"No user message found">>)]

(* ---- the keyword classifiers: isChallengeQuery (route.ts), isLegalQuestion *)
UpperCase ==
  << "A", "B", "C", "D", "E", "F", "G", "H", "I", "J", "K", "L", "M",
     "N", "O", "P", "Q", "R", "S", "T", "U", "V", "W", "X", "Y", "Z" >>
LowerCase ==
  << "a", "b", "c", "d", "e", "f", "g", "h", "i", "j", "k", "l", "m",
     "n", "o", "p", "q", "r", "s", "t", "u", "v", "w", "x", "y", "z" >>

(* String.prototype.toLowerCase, character by character *)
lowerChar(ch) ==
  IF \E i \in 1..26 : UpperCase[i] = ch
  THEN LowerCase[CHOOSE i \in 1..26 : UpperCase[i] = ch]
  ELSE ch

toLowerCase(text) == [i \in 1..Len(text) |-> lowerChar(text[i])]

challengeKeywords ==
  << <<"c", "h", "a", "l", "l", "e", "n", "g", "e">>, <<"t", "a", "s", "k">>,
     <<"g", "o", "a", "l">>, <<"h", "a", "b", "i", "t">>,
     <<"r", "o", "u", "t", "i", "n", "e">>, <<"a", "c", "t", "i", "v", "i", "t", "y">>,
     <<"p", "r", "o", "d", "u", "c", "t", "i", "v", "i", "t", "y">>,
     <<"w", "e", "l", "l", "n", "e", "s", "s">>, <<"f", "i", "t", "n", "e", "s", "s">>,
     <<"h", "e", "a", "l", "t", "h">>, <<"e", "x", "e", "r", "c", "i", "s", "e">>,
     <<"w", "o", "r", "k", "o", "u", "t">>, <<"d", "i", "e", "t">>,
     <<"n", "u", "t", "r", "i", "t", "i", "o", "n">>,
     <<"m", "e", "d", "i", "t", "a", "t", "i", "o", "n">>,
     <<"m", "i", "n", "d", "f", "u", "l", "n", "e", "s", "s">>,
     <<"m", "e", "n", "t", "a", "l">>, <<"l", "e", "a", "r", "n", "i", "n", "g">>,
     <<"s", "k", "i", "l", "l">>, <<"h", "o", "b", "b", "y">>,
     <<"p", "r", "o", "j", "e", "c", "t">>, <<"d", "a", "i", "l", "y">>,
     <<"w", "e", "e", "k", "l", "y">>, <<"m", "o", "n", "t", "h", "l", "y">>,
     <<"m", "o", "r", "n", "i", "n", "g">>, <<"e", "v", "e", "n", "i", "n", "g">>,
     <<"w", "o", "r", "k">>, <<"p", "e", "r", "s", "o", "n", "a", "l">>,
     <<"c", "r", "e", "a", "t", "i", "v", "e">>, <<"a", "r", "t">>,
     <<"w", "r", "i", "t", "i", "n", "g">>, <<"r", "e", "a", "d", "i", "n", "g">>,
     <<"s", "o", "c", "i", "a", "l">>, <<"c", "a", "r", "e", "e", "r">>,
     <<"d", "e", "v", "e", "l", "o", "p", "m", "e", "n", "t">>,
     <<"g", "r", "o", "w", "t", "h">>,
     <<"s", "e", "l", "f", "-", "i", "m", "p", "r", "o", "v", "e", "m", "e", "n", "t">>,
     <<"m", "o", "t", "i", "v", "a", "t", "i", "o", "n">>,
     <<"d", "i", "s", "c", "i", "p", "l", "i", "n", "e">>,
     <<"c", "o", "n", "s", "i", "s", "t", "e", "n", "c", "y">>, <<"f", "o", "c", "u", "s">>,
     <<"t", "i", "m", "e", " ", "m", "a", "n", "a", "g", "e", "m", "e", "n", "t">>,
     <<"s", "t", "r", "e", "s", "s">>, <<"a", "n", "x", "i", "e", "t", "y">>,
     <<"s", "l", "e", "e", "p">>,
     <<"h", "a", "b", "i", "t", " ", "t", "r", "a", "c", "k", "i", "n", "g">>,
     <<"g", "o", "a", "l", "s">>, <<"t", "a", "r", "g", "e", "t", "s">>,
     <<"m", "i", "l", "e", "s", "t", "o", "n", "e", "s">>,
     <<"p", "r", "o", "g", "r", "e", "s", "s">>,
     <<"a", "c", "h", "i", "e", "v", "e", "m", "e", "n", "t">>,
     <<"p", "r", "o", "d", "u", "c", "t", "i", "v", "i", "t", "y", " ", "h", "a", "c", "k", "s">>,
     <<"l", "i", "f", "e", "h", "a", "c", "k">>,
     <<"j", "o", "u", "r", "n", "a", "l", "i", "n", "g">>,
     <<"r", "e", "f", "l", "e", "c", "t", "i", "o", "n">>, <<"v", "i", "s", "i", "o", "n">>,
     <<"p", "l", "a", "n", "n", "i", "n", "g">>,
     <<"g", "o", "a", "l", " ", "s", "e", "t", "t", "i", "n", "g">>,
     <<"t", "r", "a", "c", "k", "i", "n", "g">>,
     <<"r", "e", "s", "i", "l", "i", "e", "n", "c", "e">>, <<"g", "r", "i", "t">>,
     <<"i", "n", "s", "p", "i", "r", "a", "t", "i", "o", "n">>,
     <<"c", "h", "e", "c", "k", "l", "i", "s", "t">>,
     <<"s", "e", "l", "f", "-", "c", "a", "r", "e">>,
     <<"a", "f", "f", "i", "r", "m", "a", "t", "i", "o", "n", "s">>,
     <<"c", "l", "a", "r", "i", "t", "y">>, <<"b", "r", "e", "a", "t", "h", "i", "n", "g">>,
     <<"r", "o", "u", "t", "i", "n", "e", " ", "b", "u", "i", "l", "d", "i", "n", "g">>,
     <<"e", "n", "e", "r", "g", "y", " ", "b", "o", "o", "s", "t">>,
     <<"p", "o", "s", "i", "t", "i", "v", "i", "t", "y">>,
     <<"c", "l", "e", "a", "n", " ", "e", "a", "t", "i", "n", "g">>,
     <<"h", "y", "d", "r", "a", "t", "i", "o", "n">>,
     <<"s", "t", "e", "p", " ", "c", "o", "u", "n", "t">>,
     <<"w", "a", "l", "k", "i", "n", "g">>, <<"r", "u", "n", "n", "i", "n", "g">>,
     <<"s", "t", "r", "e", "t", "c", "h", "i", "n", "g">>, <<"y", "o", "g", "a">>,
     <<"b", "o", "d", "y", "w", "e", "i", "g", "h", "t">>,
     <<"s", "t", "r", "e", "n", "g", "t", "h">>, <<"c", "a", "l", "m", "n", "e", "s", "s">>,
     <<"b", "a", "l", "a", "n", "c", "e">>, <<"m", "i", "n", "d", "s", "e", "t">>,
     <<"c", "o", "n", "s", "u", "m", "p", "t", "i", "o", "n">>, <<"d", "e", "t", "o", "x">>,
     <<"r", "o", "u", "t", "i", "n", "e", " ", "d", "e", "s", "i", "g", "n">>,
     <<"h", "a", "b", "i", "t", " ", "l", "o", "o", "p">>,
     <<"l", "i", "f", "e", "s", "t", "y", "l", "e">>,
     <<"c", "o", "m", "m", "i", "t", "m", "e", "n", "t">>,
     <<"p", "e", "r", "s", "i", "s", "t", "e", "n", "c", "e">>,
     <<"a", "c", "c", "o", "u", "n", "t", "a", "b", "i", "l", "i", "t", "y">>,
     <<"f", "e", "e", "d", "b", "a", "c", "k">>,
     <<"g", "o", "a", "l", " ", "r", "e", "v", "i", "e", "w">>, <<"w", "i", "n">>,
     <<"m", "i", "c", "r", "o", "-", "g", "o", "a", "l", "s">>,
     <<"s", "t", "r", "e", "a", "k">>,
     <<"h", "a", "b", "i", "t", " ", "s", "t", "a", "c", "k", "i", "n", "g">>,
     <<"k", "e", "y", "s", "t", "o", "n", "e", " ", "h", "a", "b", "i", "t">> >>

legalKeywords ==
  << <<"l", "a", "w">>, <<"l", "e", "g", "a", "l">>, <<"r", "i", "g", "h", "t">>,
     <<"r", "i", "g", "h", "t", "s">>, <<"c", "o", "u", "r", "t">>,
     <<"j", "u", "d", "g", "e">>, <<"a", "t", "t", "o", "r", "n", "e", "y">>,
     <<"l", "a", "w", "y", "e", "r">>, <<"l", "a", "w", "s", "u", "i", "t">>,
     <<"c", "o", "n", "t", "r", "a", "c", "t">>,
     <<"a", "g", "r", "e", "e", "m", "e", "n", "t">>, <<"b", "r", "e", "a", "c", "h">>,
     <<"l", "i", "a", "b", "i", "l", "i", "t", "y">>, <<"t", "o", "r", "t">>,
     <<"c", "o", "m", "p", "e", "n", "s", "a", "t", "i", "o", "n">>,
     <<"d", "a", "m", "a", "g", "e", "s">>, <<"c", "r", "i", "m", "e">>,
     <<"c", "r", "i", "m", "i", "n", "a", "l">>, <<"o", "f", "f", "e", "n", "s", "e">>,
     <<"p", "r", "o", "s", "e", "c", "u", "t", "i", "o", "n">>,
     <<"d", "e", "f", "e", "n", "d", "a", "n", "t">>,
     <<"p", "l", "a", "i", "n", "t", "i", "f", "f">>, <<"s", "u", "e">>,
     <<"s", "u", "e", "d">>, <<"d", "i", "v", "o", "r", "c", "e">>,
     <<"c", "u", "s", "t", "o", "d", "y">>, <<"p", "r", "o", "p", "e", "r", "t", "y">>,
     <<"e", "s", "t", "a", "t", "e">>, <<"w", "i", "l", "l">>,
     <<"t", "e", "s", "t", "a", "m", "e", "n", "t">>,
     <<"i", "n", "h", "e", "r", "i", "t", "a", "n", "c", "e">>,
     <<"t", "e", "n", "a", "n", "t">>, <<"l", "a", "n", "d", "l", "o", "r", "d">>,
     <<"l", "e", "a", "s", "e">>, <<"e", "v", "i", "c", "t", "i", "o", "n">>,
     <<"e", "m", "p", "l", "o", "y", "m", "e", "n", "t">>,
     <<"d", "i", "s", "c", "r", "i", "m", "i", "n", "a", "t", "i", "o", "n">>,
     <<"p", "a", "t", "e", "n", "t">>, <<"c", "o", "p", "y", "r", "i", "g", "h", "t">>,
     <<"t", "r", "a", "d", "e", "m", "a", "r", "k">>,
     <<"i", "n", "t", "e", "l", "l", "e", "c", "t", "u", "a", "l", " ", "p", "r", "o", "p", "e", "r", "t", "y">>,
     <<"s", "e", "t", "t", "l", "e", "m", "e", "n", "t">>,
     <<"r", "e", "g", "u", "l", "a", "t", "i", "o", "n">>,
     <<"s", "t", "a", "t", "u", "t", "e">>,
     <<"l", "e", "g", "i", "s", "l", "a", "t", "i", "o", "n">>,
     <<"c", "o", "n", "s", "t", "i", "t", "u", "t", "i", "o", "n">>,
     <<"j", "u", "r", "i", "s", "d", "i", "c", "t", "i", "o", "n">>,
     <<"i", "n", "s", "u", "r", "a", "n", "c", "e">>, <<"c", "l", "a", "i", "m">>,
     <<"d", "i", "s", "p", "u", "t", "e">>,
     <<"a", "r", "b", "i", "t", "r", "a", "t", "i", "o", "n">>,
     <<"m", "e", "d", "i", "a", "t", "i", "o", "n">>, <<"l", "i", "c", "e", "n", "s", "e">>,
     <<"d", "e", "b", "t">>, <<"b", "a", "n", "k", "r", "u", "p", "t", "c", "y">>,
     <<"t", "a", "x">>, <<"i", "m", "m", "i", "g", "r", "a", "t", "i", "o", "n">>,
     <<"v", "i", "s", "a">>, <<"c", "i", "t", "i", "z", "e", "n", "s", "h", "i", "p">> >>

(* keyword.toLowerCase() of every keyword of a list *)
lowerKeywords(keywords) == [k \in 1..Len(keywords) |-> toLowerCase(keywords[k])]
challengeKeywordsLower == lowerKeywords(challengeKeywords)
legalKeywordsLower == lowerKeywords(legalKeywords)

(* mutant: the text is not lower-cased before the search *)
isChallengeQuery_caseSensitive(text) ==
  \E k \in 1..Len(challengeKeywords) : includes(text, challengeKeywordsLower[k])

(* challengeKeywords.some(keyword => lowerText.includes(keyword.toLowerCase())) *)
isChallengeQuery(text) ==
  LET lowerText == toLowerCase(text)
  IN  \E k \in 1..Len(challengeKeywords) : includes(lowerText, challengeKeywordsLower[k])

(* legalKeywords.some(keyword => lowerText.includes(keyword.toLowerCase())) *)
isLegalQuestion(text) ==
  LET lowerText == toLowerCase(text)
  IN  \E k \in 1..Len(legalKeywords) : includes(lowerText, legalKeywordsLower[k])

(* ---- the external generation API, seen from POST *)
rateLimitFetchError ==
  [ status |-> Some(429),
    message |-> Some(<<"[", "4", "2", "9", "]", RD, "2", "s">>) ]

(* the API asks for an immediate retry *)
zeroDelayFetchError ==
  [ status |-> Some(429),
    message |-> Some(<<"[", "4", "2", "9", "]", RD, "0", "s">>) ]

UpstreamErrors ==
  { rateLimitFetchError,
    zeroDelayFetchError,
    [status |-> Some(429), message |-> null],
    [status |-> null, message |-> Some(<<"4", "2", "9">>)],
    [status |-> Some(400), message |-> Some(<<"API key not valid">>)],
    [status |-> null, message |-> Some(<<>>)] }

(* chat.sendMessageStream either rejects with an error or resolves with a stream *)
UpstreamOutcomes(errs) ==
  {[throws |-> FALSE, error |-> [status |-> null, message |-> null]]}
    \cup {[throws |-> TRUE, error |-> e] : e \in errs}

(* chunk.text() values; the empty text is dropped by `if (text)` *)
Fragments == {<<>>, <<"x">>, <<"U+00E9">>}

(* TextEncoder.encode: UTF-8 *)
(* the printable characters of ASCII, code points 32..126 (U+0060 is the *)
(* grave accent)                                                        *)
Ascii ==
  << " ", "!", "\"", "#", "$", "%", "&", "'", "(", ")", "*", "+", ",", "-", ".", "/",
     "0", "1", "2", "3", "4", "5", "6", "7", "8", "9", ":", ";", "<", "=", ">", "?",
     "@", "A", "B", "C", "D", "E", "F", "G", "H", "I", "J", "K", "L", "M", "N", "O",
     "P", "Q", "R", "S", "T", "U", "V", "W", "X", "Y", "Z", "[", "\\", "]", "^", "_",
     "U+0060", "a", "b", "c", "d", "e", "f", "g", "h", "i", "j", "k", "l", "m", "n", "o",
     "p", "q", "r", "s", "t", "u", "v", "w", "x", "y", "z", "{", "|", "}", "~" >>

asciiCode == [ch \in {Ascii[i] : i \in DOMAIN Ascii} |->
                31 + (CHOOSE i \in DOMAIN Ascii : Ascii[i] = ch)]

encodeChar(ch) ==
  CASE ch = "x" -> <<120>>
    [] ch = "U+00E9" -> <<195, 169>>
    [] ch \in DOMAIN asciiCode -> <<asciiCode[ch]>>
    [] OTHER -> <<239, 191, 189>>

(* the encodings of the characters in order; a long text is encoded half by *)
(* half, which gives the same bytes                                        *)
RECURSIVE encode(_)
encode(text) ==
  IF text = <<>> THEN <<>>
  ELSE IF Len(text) = 1 THEN encodeChar(text[1])
  ELSE LET half == Len(text) \div 2
       IN  encode(SubSeq(text, 1, half)) \o encode(SubSeq(text, half + 1, Len(text)))

newRequest(body) ==
  [ body |-> body,       \* the JSON payload
    spc |-> "recv",      \* recv, responded (JSON error), relay, closed, errored
    resp |-> null,       \* the Response returned by POST
    api |-> null,        \* the startChat / sendMessageStream call made, if any
    thrown |-> null,     \* the error the catch block of POST received, if any
    logged |-> null,     \* the classifier verdict written by console.log, if any
    pulled |-> <<>>,     \* the fragments the upstream sequence has yielded
    chunks |-> <<>>,     \* the chunks enqueued on the output stream
    wire |-> <<>> ]      \* the bytes enqueued and not yet read by the requester

(* mutant: a query the classifier rejects is answered without the model *)
converse_refuseOutOfDomain(r, up, priming, verdict) ==
  LET msgs == r.body.messages
      call == [ history |-> priming \o turnsOf(msgs),
                generationConfig |-> generationConfig,
                message |-> lastUserMessageOf(msgs).content ]
  IN  IF ~verdict.value
      THEN [r EXCEPT !.spc = "closed", !.resp = Some(streamResponse),
                     !.logged = Some(verdict)]
      ELSE IF up.throws
      THEN [r EXCEPT !.spc = "responded", !.resp = Some(errorResponse(up.error)),
                     !.thrown = Some(up.error), !.api = Some(call),
                     !.logged = Some(verdict)]
      ELSE [r EXCEPT !.spc = "relay", !.resp = Some(streamResponse),
                     !.api = Some(call), !.logged = Some(verdict)]

(* POST from the classifier call to `return new Response(...)`, given the two  *)
(* priming entries and the logged classifier verdict of the variant           *)
converse(r, up, priming, verdict) ==
  LET msgs == r.body.messages
      call == [ history |-> priming \o turnsOf(msgs),
                generationConfig |-> generationConfig,
                message |-> lastUserMessageOf(msgs).content ]
  IN  IF up.throws
      THEN [r EXCEPT !.spc = "responded", !.resp = Some(errorResponse(up.error)),
                     !.thrown = Some(up.error), !.api = Some(call),
                     !.logged = Some(verdict)]
      ELSE [r EXCEPT !.spc = "relay", !.resp = Some(streamResponse),
                     !.api = Some(call), !.logged = Some(verdict)]

(* mutant: `await req.json()` sits before the try block, so its error escapes *)
handle_parseOutsideTry(r, up) ==
  IF ~r.body.parses
  THEN [r EXCEPT !.spc = "crashed", !.thrown = Some(jsonSyntaxError)]
  ELSE IF lastUserMessageIndex(r.body.messages) = -1
  THEN [r EXCEPT !.spc = "responded", !.resp = Some(errorResponse(noUserMessageError)),
                 !.thrown = Some(noUserMessageError)]
  ELSE converse(r, up, primingEntries,
                [ label |-> "Is challenge query:",
                  value |-> isChallengeQuery(lastUserMessageOf(r.body.messages).content) ])

(* mutant: a payload without user message is answered with an empty reply *)
handle_emptyReplyWithoutUser(r, up) ==
  IF ~r.body.parses
  THEN [r EXCEPT !.spc = "responded", !.resp = Some(errorResponse(jsonSyntaxError)),
                 !.thrown = Some(jsonSyntaxError)]
  ELSE IF lastUserMessageIndex(r.body.messages) = -1
  THEN [r EXCEPT !.spc = "closed", !.resp = Some(streamResponse)]
  ELSE converse(r, up, primingEntries,
                [ label |-> "Is challenge query:",
                  value |-> isChallengeQuery(lastUserMessageOf(r.body.messages).content) ])

(* POST of the challenge bot up to `return new Response(...)`, the catch block *)
(* included                                                                    *)
handle(r, up) ==
  IF ~r.body.parses
  THEN [r EXCEPT !.spc = "responded", !.resp = Some(errorResponse(jsonSyntaxError)),
                 !.thrown = Some(jsonSyntaxError)]
  ELSE IF lastUserMessageIndex(r.body.messages) = -1
  THEN [r EXCEPT !.spc = "responded", !.resp = Some(errorResponse(noUserMessageError)),
                 !.thrown = Some(noUserMessageError)]
  ELSE converse(r, up, primingEntries,
                [ label |-> "Is challenge query:",
                  value |-> isChallengeQuery(lastUserMessageOf(r.body.messages).content) ])

(* POST of the legal bot: the same steps with its own texts and classifier *)
legalHandle(r, up) ==
  IF ~r.body.parses
  THEN [r EXCEPT !.spc = "responded", !.resp = Some(errorResponse(jsonSyntaxError)),
                 !.thrown = Some(jsonSyntaxError)]
  ELSE IF lastUserMessageIndex(r.body.messages) = -1
  THEN [r EXCEPT !.spc = "responded", !.resp = Some(errorResponse(noUserMessageError)),
                 !.thrown = Some(noUserMessageError)]
  ELSE converse(r, up, legalPrimingEntries,
                [ label |-> "Is legal question:",
                  value |-> isLegalQuestion(lastUserMessageOf(r.body.messages).content) ])

POST(c, errs) ==
  /\ c \in DOMAIN net
  /\ net[c].spc = "recv"
  /\ \E up \in UpstreamOutcomes(errs) : net' = [net EXCEPT ![c] = handle(@, up)]
  /\ UNCHANGED clientVars

LegalPOST(c, errs) ==
  /\ c \in DOMAIN net
  /\ net[c].spc = "recv"
  /\ \E up \in UpstreamOutcomes(errs) : net' = [net EXCEPT ![c] = legalHandle(@, up)]
  /\ UNCHANGED clientVars

(* ReadableStream.start: one iteration of `for await (const chunk of result.stream)` *)
(* mutant: a fragment is added to the chunk queued before it *)
enqueue_coalesce(r, text) ==
  IF truthyText(text)
  THEN [r EXCEPT !.pulled = Append(@, text),
                 !.chunks = IF @ = <<>> THEN <<encode(text)>>
                            ELSE [@ EXCEPT ![Len(@)] = @ \o encode(text)],
                 !.wire = @ \o encode(text)]
  ELSE [r EXCEPT !.pulled = Append(@, text)]

enqueue(r, text) ==
  IF truthyText(text)
  THEN [r EXCEPT !.pulled = Append(@, text),
                 !.chunks = Append(@, encode(text)),
                 !.wire = @ \o encode(text)]
  ELSE [r EXCEPT !.pulled = Append(@, text)]

RelayFragment(c, frags) ==
  /\ c \in DOMAIN net
  /\ net[c].spc = "relay"
  /\ Len(net[c].pulled) < MaxFrags
  /\ \E text \in frags : net' = [net EXCEPT ![c] = enqueue(@, text)]
  /\ UNCHANGED clientVars

(* the upstream sequence completes: controller.close() *)
RelayClose(c) ==
  /\ c \in DOMAIN net
  /\ net[c].spc = "relay"
  /\ net' = [net EXCEPT ![c].spc = "closed"]
  /\ UNCHANGED clientVars

(* the upstream sequence throws: controller.error(error) *)
RelayError(c) ==
  /\ c \in DOMAIN net
  /\ net[c].spc = "relay"
  /\ net' = [net EXCEPT ![c].spc = "errored"]
  /\ UNCHANGED clientVars

(* ---- the handler under arbitrary request bodies *)
PayloadIds == 1..MaxMsgs
Contents == {<<"a">>, <<"b">>}
Message == [id : PayloadIds, role : Roles, content : Contents]
Payloads == UNION {[1..n -> Message] : n \in 0..MaxMsgs}
Bodies ==
  {[parses |-> FALSE, messages |-> <<>>]}
    \cup {[parses |-> TRUE, messages |-> p] : p \in Payloads}

greeting ==
  [ id |-> 1, role |-> "assistant",
    content |-> <<"Hello, I'm SadhanaAI, your daily challenge bot. How can I help you today? I can suggest personalized daily challenges for productivity, wellness, learning, or skill development. Just let me know what type of challenges you're interested in!">> ]

Init ==
  /\ messages = <<greeting>>
  /\ input = <<>>
  /\ isLoading = FALSE
  /\ error = null
  /\ retryTimer = null
  /\ calls = <<>>
  /\ net = <<>>
  /\ nextId = 2
  /\ submits = 0

(* a request of any HTTP client *)
Request(bodies) ==
  /\ DOMAIN net = {}
  /\ \E b \in bodies : net' = (0 :> newRequest(b))
  /\ UNCHANGED clientVars

PostNext ==
  \/ Request(Bodies)
  \/ POST(0, UpstreamErrors)
  \/ RelayFragment(0, {<<"x">>})
  \/ RelayClose(0)
  \/ RelayError(0)

SpecPost == Init /\ [][PostNext]_vars

(* ---- the handler under every error of a bounded shape *)
ErrTokens == {RD, "4", "2", "9", "1", "7", "s", "x"}
ErrMessages == UNION {[1..n -> ErrTokens] : n \in 0..MaxErrLen}
AllErrors ==
  [ status : {null, Some(429), Some(500)},
    message : {null} \cup {Some(m) : m \in ErrMessages} ]
CatchBodies ==
  { [parses |-> FALSE, messages |-> <<>>],
    [parses |-> TRUE, messages |-> <<greeting>>],
    [parses |-> TRUE,
     messages |-> <<greeting, [id |-> 2, role |-> "user", content |-> <<"a">>]>>] }

CatchNext ==
  \/ Request(CatchBodies)
  \/ POST(0, AllErrors)
  \/ RelayFragment(0, {<<"x">>})
  \/ RelayClose(0)
  \/ RelayError(0)

SpecCatch == Init /\ [][CatchNext]_vars

(* ---- both handlers under every short text over a small alphabet *)
ClassifierAlphabet == {"w", "i", "n", "W", "l", "a"}
ShortTexts == UNION {[1..n -> ClassifierAlphabet] : n \in 0..MaxTextLen}

tenantRightsQuestion ==
  <<"W", "h", "a", "t", " ", "a", "r", "e", " ", "m", "y", " ", "r", "i", "g", "h", "t", "s",
    " ", "a", "s", " ", "a", " ", "t", "e", "n", "a", "n", "t", "?">>

ClassifierExamples ==
  { tenantRightsQuestion,
    <<"T", "w", "i", "n", "s">>,
    <<"H", "e", "l", "l", "o">> }

ClassifyBodies ==
  { [parses |-> TRUE,
     messages |-> <<greeting, [id |-> 2, role |-> "user", content |-> t]>>] :
      t \in ShortTexts \cup ClassifierExamples }

ClassifyNext ==
  \/ Request(ClassifyBodies)
  \/ POST(0, {})
  \/ LegalPOST(0, {})
  \/ RelayFragment(0, {<<"x">>})
  \/ RelayClose(0)
  \/ RelayError(0)

SpecClassify == Init /\ [][ClassifyNext]_vars

(* ------------------------------------- page.tsx: the transcript controller *)
(* TextDecoder.decode(value, {stream: true}): bytes of an unfinished character *)
(* are kept for the next call                                                  *)
leadLen(b) ==
  IF b < 128 THEN 1 ELSE IF b \in 194..223 THEN 2 ELSE IF b \in 224..239 THEN 3 ELSE 0

isContinuation(b) == b \in 128..191

decodeChar(bs) ==
  CASE bs = <<120>> -> "x"
    [] bs = <<195, 169>> -> "U+00E9"
    [] Len(bs) = 1 /\ bs[1] \in 32..126 -> Ascii[bs[1] - 31]
    [] OTHER -> "U+FFFD"

(* mutant: decode(value) without {stream: true}: an unfinished character is *)
(* replaced at once instead of being kept for the next call                  *)
RECURSIVE utf8Decode_noStream(_)
utf8Decode_noStream(bs) ==
  IF bs = <<>> THEN [text |-> <<>>, pending |-> <<>>]
  ELSE LET n == leadLen(bs[1])
           have == IF n < Len(bs) THEN n ELSE Len(bs)
           wellFormed == n > 0 /\ Len(bs) >= n /\ \A k \in 2..have : isContinuation(bs[k])
           used == IF wellFormed THEN n ELSE 1
           ch == IF wellFormed THEN decodeChar(SubSeq(bs, 1, n)) ELSE "U+FFFD"
           rest == utf8Decode_noStream(SubSeq(bs, used + 1, Len(bs)))
       IN  [text |-> <<ch>> \o rest.text, pending |-> <<>>]

(* the characters of bs one after the other; an unfinished last character *)
(* is kept as pending                                                     *)
RECURSIVE decodeRun(_)
decodeRun(bs) ==
  IF bs = <<>> THEN [text |-> <<>>, pending |-> <<>>]
  ELSE LET n == leadLen(bs[1])
           have == IF n < Len(bs) THEN n ELSE Len(bs)
           wellFormed == n > 0 /\ \A k \in 2..have : isContinuation(bs[k])
       IN  IF wellFormed /\ Len(bs) < n
           THEN [text |-> <<>>, pending |-> bs]
           ELSE LET used == IF wellFormed THEN n ELSE 1
                    ch == IF wellFormed THEN decodeChar(SubSeq(bs, 1, n)) ELSE "U+FFFD"
                    rest == decodeRun(SubSeq(bs, used + 1, Len(bs)))
                IN  [text |-> <<ch>> \o rest.text, pending |-> rest.pending]

(* decoder.decode(value, {stream: true}); a long value is decoded as two     *)
(* halves, the second after what the first left pending                      *)
RECURSIVE utf8Decode(_)
utf8Decode(bs) ==
  IF Len(bs) <= 8 THEN decodeRun(bs)
  ELSE LET half == Len(bs) \div 2
           front == utf8Decode(SubSeq(bs, 1, half))
           back == utf8Decode(front.pending \o SubSeq(bs, half + 1, Len(bs)))
       IN  [text |-> front.text \o back.text, pending |-> back.pending]

(* the texts typed into the input field: empty, blank, and one with content *)
TypedTexts == {<<>>, <<" ">>, <<"a">>}

challengeExamples ==
  { <<"G", "i", "v", "e", " ", "m", "e", " ", "a", " ", "p", "r", "o", "d", "u", "c", "t", "i",
      "v", "i", "t", "y", " ", "c", "h", "a", "l", "l", "e", "n", "g", "e", " ", "f", "o", "r",
      " ", "t", "o", "d", "a", "y">>,
    <<"S", "u", "g", "g", "e", "s", "t", " ", "a", " ", "7", "-", "d", "a", "y", " ", "f", "i",
      "t", "n", "e", "s", "s", " ", "c", "h", "a", "l", "l", "e", "n", "g", "e">>,
    <<"I", " ", "n", "e", "e", "d", " ", "a", " ", "m", "e", "n", "t", "a", "l", " ", "w", "e",
      "l", "l", "n", "e", "s", "s", " ", "c", "h", "a", "l", "l", "e", "n", "g", "e">>,
    <<"W", "h", "a", "t", "'", "s", " ", "a", " ", "g", "o", "o", "d", " ", "l", "e", "a", "r",
      "n", "i", "n", "g", " ", "c", "h", "a", "l", "l", "e", "n", "g", "e", " ", "f", "o", "r",
      " ", "b", "e", "g", "i", "n", "n", "e", "r", "s", "?">> }

(* mutant: the submit button ignores the countdown *)
submitDisabled_noCountdown == isLoading \/ ~truthyText(trim(input))

(* the example clicked in the runs explored: the four differ in their text only *)
ClickedExamples ==
  { <<"G", "i", "v", "e", " ", "m", "e", " ", "a", " ", "p", "r", "o", "d", "u", "c", "t", "i",
      "v", "i", "t", "y", " ", "c", "h", "a", "l", "l", "e", "n", "g", "e", " ", "f", "o", "r",
      " ", "t", "o", "d", "a", "y">> }

(* !!retryTimer *)
countdownActive == retryTimer # null /\ truthyNumber(retryTimer[1])

(* the `disabled` attributes of the input field, the submit button, the examples *)
inputDisabled == isLoading \/ countdownActive
submitDisabled == isLoading \/ ~truthyText(trim(input)) \/ countdownActive
exampleDisabled == isLoading

without(f, k) ==
  IF DOMAIN f \subseteq {k} THEN <<>> ELSE [x \in DOMAIN f \ {k} |-> f[x]]
with(f, k, v) == [x \in DOMAIN f \cup {k} |-> IF x = k THEN v ELSE f[x]]

handleInputChange(value) ==
  /\ ~inputDisabled
  /\ input' = value
  /\ UNCHANGED <<messages, isLoading, error, retryTimer, calls, net, nextId, submits>>

handleExampleClick(example) ==
  /\ ~exampleDisabled
  /\ input' = example
  /\ UNCHANGED <<messages, isLoading, error, retryTimer, calls, net, nextId, submits>>

(* mutant: the guard tests the text without trimming it *)
sendMessage_noTrim(messageContent) ==
  IF ~truthyText(messageContent) \/ isLoading
  THEN UNCHANGED vars
  ELSE LET userMessage == [id |-> nextId, role |-> "user", content |-> messageContent]
       IN  /\ submits < MaxSubmits
           /\ messages' = Append(messages, userMessage)
           /\ input' = <<>>
           /\ isLoading' = TRUE
           /\ error' = null
           /\ calls' = with(calls, userMessage.id,
                            [ pc |-> "fetch", retryTimer |-> retryTimer,
                              assistantId |-> null, responseText |-> <<>>,
                              pending |-> <<>> ])
           /\ net' = with(net, userMessage.id,
                          newRequest([ parses |-> TRUE,
                                       messages |-> Append(messages, userMessage) ]))
           /\ nextId' = nextId + 1
           /\ submits' = submits + 1
           /\ UNCHANGED retryTimer

(* mutant: the request body is the transcript of the last render, without the *)
(* new user message                                                           *)
sendMessage_staleBody(messageContent) ==
  IF ~truthyText(trim(messageContent)) \/ isLoading
  THEN UNCHANGED vars
  ELSE LET userMessage == [id |-> nextId, role |-> "user", content |-> messageContent]
       IN  /\ submits < MaxSubmits
           /\ messages' = Append(messages, userMessage)
           /\ input' = <<>>
           /\ isLoading' = TRUE
           /\ error' = null
           /\ calls' = with(calls, userMessage.id,
                            [ pc |-> "fetch", retryTimer |-> retryTimer,
                              assistantId |-> null, responseText |-> <<>>,
                              pending |-> <<>> ])
           /\ net' = with(net, userMessage.id,
                          newRequest([parses |-> TRUE, messages |-> messages]))
           /\ nextId' = nextId + 1
           /\ submits' = submits + 1
           /\ UNCHANGED retryTimer

(* mutant: setIsLoading(true) is forgotten *)
sendMessage_noLoadingFlag(messageContent) ==
  IF ~truthyText(trim(messageContent)) \/ isLoading
  THEN UNCHANGED vars
  ELSE LET userMessage == [id |-> nextId, role |-> "user", content |-> messageContent]
       IN  /\ submits < MaxSubmits
           /\ messages' = Append(messages, userMessage)
           /\ input' = <<>>
           /\ error' = null
           /\ calls' = with(calls, userMessage.id,
                            [ pc |-> "fetch", retryTimer |-> retryTimer,
                              assistantId |-> null, responseText |-> <<>>,
                              pending |-> <<>> ])
           /\ net' = with(net, userMessage.id,
                          newRequest([ parses |-> TRUE,
                                       messages |-> Append(messages, userMessage) ]))
           /\ nextId' = nextId + 1
           /\ submits' = submits + 1
           /\ UNCHANGED <<retryTimer, isLoading>>

(* sendMessage up to its first await: the guard, the user message, the fetch *)
sendMessage(messageContent) ==
  IF ~truthyText(trim(messageContent)) \/ isLoading
  THEN UNCHANGED vars
  ELSE LET userMessage == [id |-> nextId, role |-> "user", content |-> messageContent]
       IN  /\ submits < MaxSubmits
           /\ messages' = Append(messages, userMessage)
           /\ input' = <<>>
           /\ isLoading' = TRUE
           /\ error' = null
           /\ calls' = with(calls, userMessage.id,
                            [ pc |-> "fetch",            \* fetch, json, read
                              retryTimer |-> retryTimer, \* the value the closure holds
                              assistantId |-> null,
                              responseText |-> <<>>,
                              pending |-> <<>> ])
           /\ net' = with(net, userMessage.id,
                          newRequest([ parses |-> TRUE,
                                       messages |-> Append(messages, userMessage) ]))
           /\ nextId' = nextId + 1
           /\ submits' = submits + 1
           /\ UNCHANGED retryTimer

handleSubmit ==
  /\ ~submitDisabled
  /\ sendMessage(input)

handleKeyPress ==
  /\ ~inputDisabled
  /\ sendMessage(input)

(* the catch and finally blocks of sendMessage, for the call c that threw errMessage *)
catchFinally(c, errMessage) ==
  /\ error' = IF ~(calls[c].retryTimer # null /\ truthyNumber(calls[c].retryTimer[1]))
              THEN Some(IF truthyText(errMessage) THEN errMessage
                        ELSE <<"Failed to communicate with the AI">>)
              ELSE error
  /\ isLoading' = FALSE
  /\ calls' = without(calls, c)
  /\ net' = without(net, c)

(* fetch rejects *)
FetchReject(c) ==
  /\ calls[c].pc = "fetch"
  /\ catchFinally(c, <<"Failed to fetch">>)
  /\ UNCHANGED <<messages, input, retryTimer, nextId, submits>>

(* mutant: the empty assistant message is appended before the content type *)
(* is looked at                                                              *)
FetchResolve_placeholderFirst(c) ==
  /\ calls[c].pc = "fetch"
  /\ net[c].resp # null
  /\ LET response == net[c].resp[1]
     IN  IF ~(response.status \in 200..299)
         THEN /\ calls' = [calls EXCEPT ![c].pc = "json"]
              /\ UNCHANGED <<messages, input, isLoading, error, retryTimer, net, nextId,
                             submits>>
         ELSE IF includes(response.contentType, <<"text/plain">>)
         THEN /\ messages' = Append(messages,
                                    [id |-> nextId, role |-> "assistant", content |-> <<>>])
              /\ calls' = [calls EXCEPT ![c].pc = "read", ![c].assistantId = Some(nextId)]
              /\ nextId' = nextId + 1
              /\ UNCHANGED <<input, isLoading, error, retryTimer, net, submits>>
         ELSE /\ catchFinally(c, <<"Unexpected response format from server">>)
              /\ messages' = Append(messages,
                                    [id |-> nextId, role |-> "assistant", content |-> <<>>])
              /\ nextId' = nextId + 1
              /\ UNCHANGED <<input, retryTimer, submits>>

(* fetch resolves with the response POST returned *)
FetchResolve(c) ==
  /\ calls[c].pc = "fetch"
  /\ net[c].resp # null
  /\ LET response == net[c].resp[1]
     IN  IF ~(response.status \in 200..299)
         THEN /\ calls' = [calls EXCEPT ![c].pc = "json"]
              /\ UNCHANGED <<messages, input, isLoading, error, retryTimer, net, nextId,
                             submits>>
         ELSE IF includes(response.contentType, <<"text/plain">>)
         THEN /\ messages' = Append(messages,
                                    [id |-> nextId, role |-> "assistant", content |-> <<>>])
              /\ calls' = [calls EXCEPT ![c].pc = "read", ![c].assistantId = Some(nextId)]
              /\ nextId' = nextId + 1
              /\ UNCHANGED <<input, isLoading, error, retryTimer, net, submits>>
         ELSE /\ catchFinally(c, <<"Unexpected response format from server">>)
              /\ UNCHANGED <<messages, input, retryTimer, nextId, submits>>

(* `await response.json()` of a non-success response, through catch and finally *)
JsonResolve(c) ==
  /\ calls[c].pc = "json"
  /\ LET response == net[c].resp[1]
         errorData == response.body
     IN  IF response.status = 429 /\ errorData.retryAfter # null
              /\ truthyNumber(errorData.retryAfter[1])
         THEN LET seconds == parseInt(toString(errorData.retryAfter[1]))
                  shown == IF errorData.message # null /\ truthyText(errorData.message[1])
                           THEN errorData.message[1]
                           ELSE <<"Rate limit exceeded. Please wait ">> \o toString(seconds)
                                  \o <<" seconds before trying again.">>
                  thrown == IF errorData.message # null /\ truthyText(errorData.message[1])
                            THEN errorData.message[1]
                            ELSE <<"Rate limit exceeded">>
              IN  /\ retryTimer' = Some(seconds)
                  /\ error' = IF ~(calls[c].retryTimer # null
                                     /\ truthyNumber(calls[c].retryTimer[1]))
                              THEN Some(thrown)
                              ELSE Some(shown)
                  /\ isLoading' = FALSE
                  /\ calls' = without(calls, c)
                  /\ net' = without(net, c)
         ELSE /\ catchFinally(c, IF errorData.error # null /\ truthyText(errorData.error[1])
                                 THEN errorData.error[1]
                                 ELSE <<"Failed to get response">>)
              /\ UNCHANGED retryTimer
  /\ UNCHANGED <<messages, input, nextId, submits>>

(* mutant: the message is given the decoded chunk instead of the accumulated text *)
ReadChunk_chunkOnly(c) ==
  /\ calls[c].pc = "read"
  /\ net[c].wire # <<>>
  /\ \E n \in 1..Len(net[c].wire) :
       LET value == SubSeq(net[c].wire, 1, n)
           decoded == utf8Decode(calls[c].pending \o value)
           responseText == calls[c].responseText \o decoded.text
       IN  /\ calls' = [calls EXCEPT ![c].responseText = responseText,
                                     ![c].pending = decoded.pending]
           /\ messages' = [i \in 1..Len(messages) |->
                             IF messages[i].id = calls[c].assistantId[1]
                             THEN [messages[i] EXCEPT !.content = decoded.text]
                             ELSE messages[i]]
           /\ net' = [net EXCEPT ![c].wire = SubSeq(@, n + 1, Len(@))]
  /\ UNCHANGED <<input, isLoading, error, retryTimer, nextId, submits>>

(* mutant: every chunk read is shown as an assistant message of its own *)
ReadChunk_appendPerChunk(c) ==
  /\ calls[c].pc = "read"
  /\ net[c].wire # <<>>
  /\ \E n \in 1..Len(net[c].wire) :
       LET value == SubSeq(net[c].wire, 1, n)
           decoded == utf8Decode(calls[c].pending \o value)
           responseText == calls[c].responseText \o decoded.text
       IN  /\ calls' = [calls EXCEPT ![c].responseText = responseText,
                                     ![c].pending = decoded.pending]
           /\ messages' = Append(messages, [id |-> nextId, role |-> "assistant",
                                            content |-> decoded.text])
           /\ nextId' = nextId + 1
           /\ net' = [net EXCEPT ![c].wire = SubSeq(@, n + 1, Len(@))]
  /\ UNCHANGED <<input, isLoading, error, retryTimer, submits>>

(* reader.read() resolves with the bytes that have arrived *)
ReadChunk(c) ==
  /\ calls[c].pc = "read"
  /\ net[c].wire # <<>>
  /\ \E n \in 1..Len(net[c].wire) :
       LET value == SubSeq(net[c].wire, 1, n)
           decoded == utf8Decode(calls[c].pending \o value)
           responseText == calls[c].responseText \o decoded.text
       IN  /\ calls' = [calls EXCEPT ![c].responseText = responseText,
                                     ![c].pending = decoded.pending]
           /\ messages' = [i \in 1..Len(messages) |->
                             IF messages[i].id = calls[c].assistantId[1]
                             THEN [messages[i] EXCEPT !.content = responseText]
                             ELSE messages[i]]
           /\ net' = [net EXCEPT ![c].wire = SubSeq(@, n + 1, Len(@))]
  /\ UNCHANGED <<input, isLoading, error, retryTimer, nextId, submits>>

(* mutant: the loading flag is cleared in the catch block only *)
ReadDone_keepsLoading(c) ==
  /\ calls[c].pc = "read"
  /\ net[c].wire = <<>>
  /\ net[c].spc = "closed"
  /\ calls' = without(calls, c)
  /\ net' = without(net, c)
  /\ UNCHANGED <<messages, input, isLoading, error, retryTimer, nextId, submits>>

(* reader.read() resolves with done: the loop ends, finally runs *)
ReadDone(c) ==
  /\ calls[c].pc = "read"
  /\ net[c].wire = <<>>
  /\ net[c].spc = "closed"
  /\ isLoading' = FALSE
  /\ calls' = without(calls, c)
  /\ net' = without(net, c)
  /\ UNCHANGED <<messages, input, error, retryTimer, nextId, submits>>

(* mutant: a failed stream takes the partial assistant message back *)
ReadError_dropsPartial(c) ==
  /\ calls[c].pc = "read"
  /\ net[c].spc = "errored"
  /\ catchFinally(c, <<"network error">>)
  /\ messages' = SubSeq(messages, 1, Len(messages) - 1)
  /\ UNCHANGED <<input, retryTimer, nextId, submits>>

(* reader.read() rejects: the output stream is in its error state *)
ReadError(c) ==
  /\ calls[c].pc = "read"
  /\ net[c].spc = "errored"
  /\ catchFinally(c, <<"network error">>)
  /\ UNCHANGED <<messages, input, retryTimer, nextId, submits>>

(* mutant: when the countdown ends the last request is sent again *)
Tick_autoRetry ==
  /\ retryTimer # null
  /\ retryTimer[1] > 0
  /\ IF retryTimer[1] > 1
     THEN /\ retryTimer' = Some(retryTimer[1] - 1)
          /\ UNCHANGED <<error, isLoading, calls, net>>
     ELSE /\ retryTimer' = null
          /\ error' = null
          /\ isLoading' = TRUE
          /\ calls' = with(calls, messages[Len(messages)].id,
                           [ pc |-> "fetch", retryTimer |-> null,
                             assistantId |-> null, responseText |-> <<>>,
                             pending |-> <<>> ])
          /\ net' = with(net, messages[Len(messages)].id,
                         newRequest([parses |-> TRUE, messages |-> messages]))
  /\ UNCHANGED <<messages, input, nextId, submits>>

(* mutant: the callback counts down to 0 instead of ending at 1 *)
Tick_toZero ==
  /\ retryTimer # null
  /\ retryTimer[1] > 0
  /\ retryTimer' = Some(retryTimer[1] - 1)
  /\ UNCHANGED <<messages, input, isLoading, error, calls, net, nextId, submits>>

(* the interval callback of the retry-timer effect *)
Tick ==
  /\ retryTimer # null
  /\ retryTimer[1] > 0
  /\ IF retryTimer[1] > 1
     THEN /\ retryTimer' = Some(retryTimer[1] - 1)
          /\ UNCHANGED error
     ELSE /\ retryTimer' = null
          /\ error' = null
  /\ UNCHANGED <<messages, input, isLoading, calls, net, nextId, submits>>

(* ---- the controller against any server: POST, or an intermediary that *)
(* answers the fetch in its place                                           *)
gatewayPage ==
  [ status |-> 200,
    contentType |-> <<"text/html">>,
    retryAfter |-> null,
    body |-> [error |-> null, message |-> null, retryAfter |-> null] ]

bareRateLimit ==
  [ status |-> 429,
    contentType |-> <<"application/json">>,
    retryAfter |-> null,
    body |-> [error |-> null, message |-> null, retryAfter |-> Some(3)] ]

bareFailure ==
  [ status |-> 503,
    contentType |-> <<"application/json">>,
    retryAfter |-> null,
    body |-> [error |-> null, message |-> null, retryAfter |-> null] ]

IntermediaryResponses == {gatewayPage, bareRateLimit, bareFailure}

Intermediary(c, responses) ==
  /\ c \in DOMAIN net
  /\ net[c].spc = "recv"
  /\ \E response \in responses :
       net' = [net EXCEPT ![c].spc = "responded", ![c].resp = Some(response)]
  /\ UNCHANGED clientVars

ClientErrors ==
  { rateLimitFetchError,
    [status |-> Some(400), message |-> Some(<<"API key not valid">>)] }

ClientNext ==
  \/ \E value \in {<<"a">>} : handleInputChange(value)
  \/ handleSubmit
  \/ handleKeyPress
  \/ \E c \in DOMAIN calls : FetchReject(c)
  \/ \E c \in DOMAIN calls : FetchResolve(c)
  \/ \E c \in DOMAIN calls : JsonResolve(c)
  \/ \E c \in DOMAIN calls : ReadChunk(c)
  \/ \E c \in DOMAIN calls : ReadDone(c)
  \/ \E c \in DOMAIN calls : ReadError(c)
  \/ \E c \in DOMAIN net : POST(c, ClientErrors)
  \/ \E c \in DOMAIN net : Intermediary(c, IntermediaryResponses)
  \/ \E c \in DOMAIN net : RelayFragment(c, {<<"x">>})
  \/ \E c \in DOMAIN net : RelayClose(c)
  \/ \E c \in DOMAIN net : RelayError(c)
  \/ Tick

SpecClient == Init /\ [][ClientNext]_vars

(* the network call settles, the handler answers, the stream ends or fails, *)
(* and every promise the call awaits is settled                             *)
SpecClientFair ==
  /\ SpecClient
  /\ WF_vars(\E c \in DOMAIN calls : FetchReject(c) \/ FetchResolve(c))
  /\ WF_vars(\E c \in DOMAIN calls : JsonResolve(c))
  /\ WF_vars(\E c \in DOMAIN calls : ReadChunk(c) \/ ReadDone(c) \/ ReadError(c))
  /\ WF_vars(\E c \in DOMAIN net : RelayClose(c) \/ RelayError(c))

NON_CHALLENGE_RESPONSE ==
  <<"I", "'", "m", " ", "a", " ", "c", "h", "a", "l", "l", "e", "n", "g", "e", " ", "b",
     "o", "t", " ", "f", "o", "c", "u", "s", "e", "d", " ", "o", "n", " ", "p", "r", "o",
     "v", "i", "d", "i", "n", "g", " ", "p", "e", "r", "s", "o", "n", "a", "l", "i", "z",
     "e", "d", " ", "d", "a", "i", "l", "y", " ", "t", "a", "s", "k", "s", " ", "a", "n",
     "d", " ", "c", "h", "a", "l", "l", "e", "n", "g", "e", "s", ".", " ", "I", " ", "c",
     "a", "n", "n", "o", "t", " ", "a", "n", "s", "w", "e", "r", " ", "q", "u", "e", "s",
     "t", "i", "o", "n", "s", " ", "o", "u", "t", "s", "i", "d", "e", " ", "t", "h", "i",
     "s", " ", "d", "o", "m", "a", "i", "n", ".">>

NON_LEGAL_RESPONSE ==
  <<"I", "'", "m", " ", "a", " ", "l", "e", "g", "a", "l", " ", "a", "d", "v", "i", "s",
     "o", "r", " ", "f", "o", "c", "u", "s", "e", "d", " ", "e", "x", "c", "l", "u", "s",
     "i", "v", "e", "l", "y", " ", "o", "n", " ", "p", "r", "o", "v", "i", "d", "i", "n",
     "g", " ", "g", "e", "n", "e", "r", "a", "l", " ", "l", "e", "g", "a", "l", " ", "i",
     "n", "f", "o", "r", "m", "a", "t", "i", "o", "n", ".", " ", "I", " ", "c", "a", "n",
     "n", "o", "t", " ", "a", "n", "s", "w", "e", "r", " ", "q", "u", "e", "s", "t", "i",
     "o", "n", "s", " ", "o", "u", "t", "s", "i", "d", "e", " ", "t", "h", "e", " ", "l",
     "e", "g", "a", "l", " ", "d", "o", "m", "a", "i", "n", ".">>

(* content.includes(NON_CHALLENGE_RESPONSE) *)
isNonChallengeResponse(content) == includes(content, NON_CHALLENGE_RESPONSE)

(* content.includes(NON_LEGAL_RESPONSE) *)
isNonLegalResponse(content) == includes(content, NON_LEGAL_RESPONSE)

(* ---- the two variants with a model that follows the persona instruction:  *)
(* it answers with the sentence the system prompt quotes, in one fragment     *)
refusalIn(prompt) == SubSeq(prompt, 2, Len(prompt) - 1)

RefusalReplies(c) ==
  IF net[c].pulled = <<>> THEN {refusalIn(net[c].api[1].history[2].text)} ELSE {}

RefusalNext ==
  \/ handleInputChange(<<"a">>)
  \/ handleSubmit
  \/ \E c \in DOMAIN calls : FetchResolve(c)
  \/ \E c \in DOMAIN calls : ReadChunk(c)
  \/ \E c \in DOMAIN calls : ReadDone(c)
  \/ \E c \in DOMAIN net : POST(c, {})
  \/ \E c \in DOMAIN net : LegalPOST(c, {})
  \/ \E c \in DOMAIN net : RelayFragment(c, RefusalReplies(c))
  \/ \E c \in DOMAIN net : RelayClose(c)

SpecRefusal == Init /\ [][RefusalNext]_vars

Next ==
  \/ \E value \in TypedTexts : handleInputChange(value)
  \/ \E example \in ClickedExamples : handleExampleClick(example)
  \/ handleSubmit
  \/ handleKeyPress
  \/ \E c \in DOMAIN calls : FetchReject(c)
  \/ \E c \in DOMAIN calls : FetchResolve(c)
  \/ \E c \in DOMAIN calls : JsonResolve(c)
  \/ \E c \in DOMAIN calls : ReadChunk(c)
  \/ \E c \in DOMAIN calls : ReadDone(c)
  \/ \E c \in DOMAIN calls : ReadError(c)
  \/ \E c \in DOMAIN net : POST(c, UpstreamErrors)
  \/ \E c \in DOMAIN net : RelayFragment(c, Fragments)
  \/ \E c \in DOMAIN net : RelayClose(c)
  \/ \E c \in DOMAIN net : RelayError(c)
  \/ Tick

Spec == Init /\ [][Next]_vars

(* the interval fires every second while it is set *)
SpecFair == Spec /\ WF_vars(Tick)

(* ------------------------------------------------------------- claims *)
hasUser(msgs) == \E i \in 1..Len(msgs) : msgs[i].role = "user"
distinctIds(msgs) ==
  \A i, j \in 1..Len(msgs) : i # j => msgs[i].id # msgs[j].id
(* position (1-based) of the last user-role message, found without the handler's code *)
lastUserPos(msgs) ==
  CHOOSE i \in 1..Len(msgs) :
    msgs[i].role = "user" /\ \A j \in (i + 1)..Len(msgs) : msgs[j].role # "user"
(* the requests whose handler has reached the external API *)
Submitted == {c \in DOMAIN net : net[c].api # null}
historyOf(c) == net[c].api[1].history
payloadOf(c) == net[c].body.messages
pairAt(h, k, userText, modelText) ==
  /\ k + 1 <= Len(h)
  /\ h[k] = [role |-> "user", text |-> userText]
  /\ h[k + 1] = [role |-> "model", text |-> modelText]

(* C1: whenever the payload holds a user message, the history given to the   *)
(* external API starts with the priming user entry followed by the model     *)
(* entry carrying the persona text; for a payload of one assistant message   *)
(* followed by one user message the history is exactly these two entries.    *)
C1_PrimingFirst ==
  \A c \in DOMAIN net :
    (net[c].spc # "recv" /\ net[c].body.parses /\ hasUser(payloadOf(c))) =>
      /\ c \in Submitted
      /\ Len(historyOf(c)) >= 2
      /\ historyOf(c)[1] = [role |-> "user", text |-> acknowledgeText]
      /\ historyOf(c)[2] = [role |-> "model", text |-> systemPromptText]
      /\ ( Len(payloadOf(c)) = 2 /\ payloadOf(c)[1].role = "assistant"
             /\ payloadOf(c)[2].role = "user" ) => Len(historyOf(c)) = 2

C1_Witness ==
  \E c \in Submitted :
    /\ Len(payloadOf(c)) = 2
    /\ payloadOf(c)[1].role = "assistant"
    /\ payloadOf(c)[2].role = "user"
    /\ Len(historyOf(c)) = 2

(* C2 as stated: every user message directly followed by an assistant message *)
(* appears in the history as a user entry directly followed by the model      *)
(* entry of the reply.                                                        *)
C2_EveryPairInHistory ==
  \A c \in Submitted :
    \A i \in 1..(Len(payloadOf(c)) - 1) :
      (payloadOf(c)[i].role = "user" /\ payloadOf(c)[i + 1].role = "assistant") =>
        \E k \in 1..Len(historyOf(c)) :
          pairAt(historyOf(c), k, payloadOf(c)[i].content, payloadOf(c)[i + 1].content)

(* C2 amended: in a payload with pairwise distinct ids, every user message    *)
(* other than the active query (the last user message) that is directly       *)
(* followed by an assistant message appears, after the priming entries, as a  *)
(* user entry directly followed by the model entry of the reply.              *)
C2_PriorPairInHistory ==
  \A c \in Submitted :
    distinctIds(payloadOf(c)) =>
      \A i \in 1..(Len(payloadOf(c)) - 1) :
        ( /\ payloadOf(c)[i].role = "user"
          /\ i # lastUserPos(payloadOf(c))
          /\ payloadOf(c)[i + 1].role = "assistant" ) =>
          \E k \in 3..Len(historyOf(c)) :
            pairAt(historyOf(c), k, payloadOf(c)[i].content, payloadOf(c)[i + 1].content)

C2_Witness ==
  \E c \in Submitted :
    /\ distinctIds(payloadOf(c))
    /\ Len(payloadOf(c)) = 3
    /\ payloadOf(c)[1].role = "user"
    /\ payloadOf(c)[2].role = "assistant"
    /\ payloadOf(c)[3].role = "user"
    /\ payloadOf(c)[1].content # payloadOf(c)[2].content
    /\ pairAt(historyOf(c), 3, payloadOf(c)[1].content, payloadOf(c)[2].content)

(* C3: the text given to the send-message call is the content of the last     *)
(* user message of the payload; that message adds no entry to the history,    *)
(* neither a user entry with its content nor a model entry with the content   *)
(* of a reply that follows it (contents that no other message carries are     *)
(* absent from the history), also when it is the last message of the payload. *)
onlyAt(msgs, i) == \A j \in 1..Len(msgs) : j # i => msgs[j].content # msgs[i].content
absentFrom(h, text) == \A k \in 1..Len(h) : h[k].text # text

C3_ActiveQuery ==
  \A c \in Submitted :
    LET msgs == payloadOf(c)
        last == lastUserPos(msgs)
    IN  /\ net[c].api[1].message = msgs[last].content
        /\ onlyAt(msgs, last) => absentFrom(historyOf(c), msgs[last].content)
        /\ ( last < Len(msgs) /\ msgs[last + 1].role = "assistant"
               /\ onlyAt(msgs, last + 1) ) =>
             absentFrom(historyOf(c), msgs[last + 1].content)

C3_Witness ==
  \E c \in Submitted :
    LET msgs == payloadOf(c)
    IN  /\ Len(msgs) = 3
        /\ msgs[1].role = "user" /\ msgs[2].role = "assistant" /\ msgs[3].role = "user"
        /\ onlyAt(msgs, 3)
        /\ net[c].api[1].message = msgs[3].content
        /\ Len(historyOf(c)) = 4
        /\ net[c].spc = "relay"

(* the errors POST has caught, with the response each was answered with *)
Caught == {c \in DOMAIN net : net[c].thrown # null}
thrownOf(c) == net[c].thrown[1]
respOf(c) == net[c].resp[1]
saysRateLimit(e) ==
  \/ e.status = Some(429)
  \/ (e.message # null /\ \E i \in 1..(Len(e.message[1]) - 2) :
        e.message[1][i] = "4" /\ e.message[1][i + 1] = "2" /\ e.message[1][i + 2] = "9")
(* decimal value of a digit string, most significant digit first *)
RECURSIVE decimal(_, _)
decimal(ds, acc) ==
  IF ds = <<>> THEN acc ELSE decimal(Tail(ds), 10 * acc + DigitVal(Head(ds)))
(* the numbers N such that the text holds  retryDelay":"<N>s  *)
delaysIn(s) ==
  { decimal(SubSeq(s, i + 1, j), 0) :
      <<i, j>> \in { p \in (1..Len(s)) \X (1..Len(s)) :
                       /\ p[1] < p[2] /\ p[2] < Len(s)
                       /\ s[p[1]] = RD
                       /\ \A k \in (p[1] + 1)..p[2] : s[k] \in Digits
                       /\ s[p[2] + 1] = "s" } }
expectedRetry(e, n) ==
  IF e.message # null /\ delaysIn(e.message[1]) # {}
  THEN n \in delaysIn(e.message[1])
  ELSE n = 60

(* C8: a caught error with status 429 or with "429" in its message is        *)
(* answered with status 429; the body's retryAfter is the N of a              *)
(* retryDelay":"<N>s in the message, and 60 when the message holds no such    *)
(* pattern or is missing; the Retry-After header is the same number.          *)
C8_RetrySeconds ==
  \A c \in Caught :
    saysRateLimit(thrownOf(c)) =>
      /\ respOf(c).status = 429
      /\ respOf(c).body.retryAfter # null
      /\ expectedRetry(thrownOf(c), respOf(c).body.retryAfter[1])
      /\ respOf(c).retryAfter # null
      /\ decimal(respOf(c).retryAfter[1], 0) = respOf(c).body.retryAfter[1]

C8_Witness ==
  \E c \in Caught :
    /\ thrownOf(c) = [status |-> Some(429), message |-> Some(<<RD, "1", "7", "s">>)]
    /\ respOf(c).status = 429
    /\ respOf(c).body.retryAfter = Some(17)
    /\ respOf(c).retryAfter = Some(<<"1", "7">>)

(* C9: a caught error is answered with the 429 response exactly when it has   *)
(* status 429 or "429" in its message; every other caught error is answered   *)
(* with status 500, content type application/json and a body {error} that    *)
(* holds the error's message, or the fixed text when it has none.             *)
C9_ErrorClasses ==
  \A c \in Caught :
    /\ net[c].spc = "responded"
    /\ (respOf(c).status = 429) <=> saysRateLimit(thrownOf(c))
    /\ ~saysRateLimit(thrownOf(c)) =>
         /\ respOf(c).status = 500
         /\ respOf(c).contentType = <<"application/json">>
         /\ respOf(c).body.message = null
         /\ respOf(c).body.retryAfter = null
         /\ respOf(c).body.error =
              Some(IF thrownOf(c).message # null /\ thrownOf(c).message[1] # <<>>
                   THEN thrownOf(c).message[1]
                   ELSE <<"Failed to process chat request">>)

C9_Witness ==
  \E c \in Caught :
    /\ net[c].api # null
    /\ thrownOf(c) = [status |-> Some(500), message |-> Some(<<"x", "4", "2">>)]
    /\ respOf(c).status = 500
    /\ respOf(c).body.error = Some(<<"x", "4", "2">>)

isJsonError(r) ==
  /\ r.status \in {429, 500}
  /\ r.contentType = <<"application/json">>
  /\ r.body.error # null

(* C10 as stated: every error of a request, a failure of the stream relay     *)
(* included, ends in one of the two JSON error responses.                     *)
C10_EveryErrorIsJson ==
  \A c \in DOMAIN net :
    (net[c].thrown # null \/ net[c].spc = "errored") =>
      (net[c].resp # null /\ isJsonError(respOf(c)))

(* C10 amended: every error raised before POST returns its response (parsing  *)
(* the payload, finding the user message, building the history, calling the   *)
(* external API) is caught and answered with one of the two JSON error        *)
(* responses; an error of the stream relay happens after the 200 text/plain   *)
(* response was returned and puts the output stream in its error state.       *)
C10_ErrorsBeforeResponse ==
  \A c \in DOMAIN net :
    /\ net[c].thrown # null =>
         (net[c].spc = "responded" /\ net[c].resp # null /\ isJsonError(respOf(c)))
    /\ net[c].spc # "recv" => net[c].resp # null
    /\ net[c].spc = "errored" =>
         (net[c].thrown = null /\ respOf(c).status = 200
            /\ respOf(c).contentType = <<"text/plain", "; charset=utf-8">>)

C10_Witness ==
  \E c \in DOMAIN net :
    /\ net[c].spc = "errored"
    /\ net[c].chunks # <<>>
    /\ respOf(c).status = 200

(* the calls whose response body is being read, and the message each fills *)
Reading == {c \in DOMAIN calls : calls[c].pc = "read"}
contentOf(id) ==
  LET i == CHOOSE k \in 1..Len(messages) : messages[k].id = id
  IN  messages[i].content
assistantContent(c) == contentOf(calls[c].assistantId[1])

(* C4: the assistant message of a request starts empty; while the stream is   *)
(* read its content is a prefix of the concatenation of the fragments the     *)
(* upstream has yielded, what is missing is exactly what is still in flight,  *)
(* no step shortens or rewrites it, and once the stream has ended and all of  *)
(* it was read the content is the concatenation of all fragments in order.    *)
C4_StreamState ==
  \A c \in Reading :
    LET inFlight == utf8Decode(calls[c].pending \o net[c].wire)
    IN  /\ isPrefix(assistantContent(c), concat(net[c].pulled))
        /\ inFlight.pending = <<>>
        /\ assistantContent(c) \o inFlight.text = concat(net[c].pulled)
        /\ (net[c].spc = "closed" /\ net[c].wire = <<>>) =>
             assistantContent(c) = concat(net[c].pulled)

C4_StreamStep ==
  /\ Len(messages') >= Len(messages)
  /\ \A i \in 1..Len(messages) : isPrefix(messages[i].content, messages'[i].content)
  /\ \A i \in (Len(messages) + 1)..Len(messages') :
       messages'[i].role = "assistant" => messages'[i].content = <<>>

C4_Streaming == []C4_StreamState /\ [][C4_StreamStep]_vars

C4_Witness ==
  \E c \in Reading :
    /\ net[c].spc = "closed"
    /\ net[c].wire = <<>>
    /\ net[c].pulled = << <<"x">>, <<"U+00E9">> >>
    /\ assistantContent(c) = <<"x", "U+00E9">>

(* C5: at most one request of the session is in flight; while the loading     *)
(* flag is set no step appends a user message or issues a network call.       *)
userCount(msgs) == Cardinality({i \in 1..Len(msgs) : msgs[i].role = "user"})

C5_OneInFlight ==
  /\ Cardinality(DOMAIN calls) <= 1
  /\ Cardinality(DOMAIN net) <= 1
  /\ DOMAIN net \subseteq DOMAIN calls

C5_NoSubmitWhileLoading ==
  isLoading => (userCount(messages') = userCount(messages) /\ DOMAIN net' \subseteq DOMAIN net)

C5_SingleRequest == []C5_OneInFlight /\ [][C5_NoSubmitWhileLoading]_vars

C5_Witness ==
  /\ isLoading
  /\ submits = 2
  /\ \E c \in Reading : calls[c].responseText # <<>> /\ net[c].spc = "relay"

(* C6: while a countdown is active no step appends a message to the           *)
(* transcript or issues a network call, and no request is in flight.          *)
C6_CountdownState == countdownActive => (DOMAIN net = {} /\ DOMAIN calls = {} /\ ~isLoading)

C6_CountdownStep == countdownActive => (messages' = messages /\ net' = net /\ calls' = calls)

C6_NoSubmitDuringCountdown == []C6_CountdownState /\ [][C6_CountdownStep]_vars

C6_Witness ==
  /\ countdownActive
  /\ retryTimer[1] < 60
  /\ input \in challengeExamples

(* C7: a countdown holds a number >= 1; a tick takes it from n > 1 to n - 1   *)
(* and from 1 to null, clearing the error and leaving the input enabled; no   *)
(* other step changes it; and every countdown eventually ends.                *)
C7_CountdownState == retryTimer # null => retryTimer[1] >= 1

C7_CountdownStep ==
  retryTimer # null =>
    \/ retryTimer' = retryTimer
    \/ (retryTimer[1] > 1 /\ retryTimer' = Some(retryTimer[1] - 1))
    \/ (retryTimer[1] = 1 /\ retryTimer' = null /\ error' = null /\ ~inputDisabled')

C7_Countdown ==
  /\ []C7_CountdownState
  /\ [][C7_CountdownStep]_vars
  /\ (retryTimer # null) ~> (retryTimer = null /\ error = null /\ ~inputDisabled)

C7_Witness == retryTimer = Some(59) /\ error # null /\ ~isLoading

(* C11: a payload that parses and holds no user-role message (the empty list  *)
(* included) never reaches the external API and is answered with status 500,  *)
(* content type application/json and a body holding only the error text;      *)
(* never with 200 or 429.                                                     *)
C11_NoUserMessage ==
  \A c \in DOMAIN net :
    (net[c].spc # "recv" /\ net[c].body.parses /\ ~hasUser(payloadOf(c))) =>
      /\ net[c].api = null
      /\ net[c].spc = "responded"
      /\ net[c].resp # null
      /\ respOf(c).status = 500
      /\ respOf(c).contentType = <<"application/json">>
      /\ respOf(c).body.error # null
      /\ respOf(c).body.message = null
      /\ respOf(c).body.retryAfter = null

C11_Witness ==
  \E c \in DOMAIN net :
    /\ net[c].body.parses
    /\ payloadOf(c) = <<>>
    /\ net[c].api = null
    /\ net[c].resp # null
    /\ respOf(c).status = 500
    /\ respOf(c).body.error = Some(<<"No user message found">>)

(* the requests whose classifier verdict was logged, and the text classified *)
Classified == {c \in DOMAIN net : net[c].logged # null}
verdictOf(c) == net[c].logged[1]
queryOf(c) == payloadOf(c)[lastUserPos(payloadOf(c))].content
occursAt(kw, text, i) ==
  /\ i + Len(kw) - 1 <= Len(text)
  /\ \A j \in 1..Len(kw) : text[i + j - 1] = kw[j]
holdsKeyword(text, keywords) ==
  \E k \in 1..Len(keywords) : \E i \in 1..(Len(text) + 1) : occursAt(keywords[k], text, i)

(* C12: the verdict of isChallengeQuery, and of isLegalQuestion, is true      *)
(* exactly when the lower-cased text holds a keyword of the variant's list at *)
(* some position, whatever surrounds it; the legal bot classifies             *)
(* "What are my rights as a tenant?" as true.                                 *)
C12_KeywordSubstring ==
  \A c \in Classified :
    /\ verdictOf(c).label \in {"Is challenge query:", "Is legal question:"}
    /\ verdictOf(c).label = "Is challenge query:" =>
         (verdictOf(c).value <=> holdsKeyword(toLowerCase(queryOf(c)), challengeKeywords))
    /\ verdictOf(c).label = "Is legal question:" =>
         (verdictOf(c).value <=> holdsKeyword(toLowerCase(queryOf(c)), legalKeywords))
    /\ (verdictOf(c).label = "Is legal question:" /\ queryOf(c) = tenantRightsQuestion) =>
         verdictOf(c).value

C12_Witness ==
  \E c \in Classified :
    /\ queryOf(c) = tenantRightsQuestion
    /\ verdictOf(c) = [label |-> "Is legal question:", value |-> TRUE]

(* C13: the classifier verdict changes nothing but the log line: for every    *)
(* payload and every outcome of the external call, the handler given the      *)
(* verdict true and the handler given the verdict false make the same call    *)
(* (history, generation parameters, message) and return the same response;    *)
(* a query classified false is forwarded to the model like any other.         *)
sameButLog(a, b) == [a EXCEPT !.logged = null] = [b EXCEPT !.logged = null]

C13_VerdictIgnored ==
  \A c \in DOMAIN net :
    /\ (net[c].spc = "recv" /\ net[c].body.parses /\ hasUser(payloadOf(c))) =>
         \A up \in UpstreamOutcomes(UpstreamErrors) :
           \A priming \in {primingEntries, legalPrimingEntries} :
             \A label \in {"Is challenge query:", "Is legal question:"} :
               sameButLog(converse(net[c], up, priming, [label |-> label, value |-> TRUE]),
                          converse(net[c], up, priming, [label |-> label, value |-> FALSE]))
    /\ c \in Classified =>
         /\ net[c].api # null
         /\ net[c].api[1].message = queryOf(c)
         /\ net[c].api[1].generationConfig = [maxOutputTokens |-> 1000, temperature |-> "0.7"]
         /\ net[c].resp # null
         /\ respOf(c).status = 200

C13_Witness ==
  \E c \in Classified :
    /\ verdictOf(c) = [label |-> "Is challenge query:", value |-> FALSE]
    /\ queryOf(c) = <<"H", "e", "l", "l", "o">>
    /\ net[c].api[1].message = <<"H", "e", "l", "l", "o">>
    /\ net[c].spc = "relay"
    /\ net[c].chunks # <<>>

(* C14: a submit of an empty or whitespace-only text changes nothing: no      *)
(* step that is a submit of such a text differs from a stuttering step, so    *)
(* the transcript, the input field, the loading flag, the error, the retry    *)
(* timer and the set of requests stay as they are.                            *)
blankInput == ~truthyText(trim(input))

C14_BlankSubmitStep ==
  (blankInput /\ (handleSubmit \/ handleKeyPress \/ sendMessage(input))) => UNCHANGED vars

C14_BlankSubmit == [][C14_BlankSubmitStep]_vars

C14_Witness ==
  /\ input = <<" ">>
  /\ ~inputDisabled
  /\ ENABLED handleKeyPress
  /\ error # null
  /\ Len(messages) = 2

(* C15: no step deletes or reorders a message or changes its id or role; a    *)
(* content changes only in the assistant message of a request whose response  *)
(* is being read, and the old content is a prefix of the new one.             *)
C15_GrowOnlyStep ==
  /\ Len(messages') >= Len(messages)
  /\ \A i \in 1..Len(messages) :
       /\ messages'[i].id = messages[i].id
       /\ messages'[i].role = messages[i].role
       /\ messages'[i].content # messages[i].content =>
            /\ messages[i].role = "assistant"
            /\ \E c \in Reading : calls[c].assistantId = Some(messages[i].id)
            /\ isPrefix(messages[i].content, messages'[i].content)

C15_TranscriptGrows == [][C15_GrowOnlyStep]_vars

C15_Witness ==
  /\ Len(messages) = 5
  /\ messages[3].content # <<>>
  /\ \E c \in Reading : assistantContent(c) = <<"x", "U+00E9">>

(* C16: a request appears only in a step that is an accepted submit, and      *)
(* each accepted submit adds exactly one; a request is never sent again, its  *)
(* handler runs once and makes at most one call to the external API; the end  *)
(* of a call (failed or not) and the end of a countdown add no request.       *)
newRequests == DOMAIN net' \ DOMAIN net

C16_NoRetryStep ==
  /\ newRequests # {} => (submits' = submits + 1 /\ (handleSubmit \/ handleKeyPress))
  /\ submits' # submits => (submits' = submits + 1 /\ Cardinality(newRequests) = 1)
  /\ \A c \in DOMAIN net \cap DOMAIN net' :
       /\ net'[c].body = net[c].body
       /\ net[c].spc # "recv" => (net'[c].spc # "recv" /\ net'[c].api = net[c].api)
  /\ DOMAIN calls \ DOMAIN calls' # {} => newRequests = {}
  /\ (retryTimer # null /\ retryTimer' = null) => (newRequests = {} /\ DOMAIN net' = {})

C16_NoAutomaticRetry == [](userCount(messages) = submits) /\ [][C16_NoRetryStep]_vars

C16_Witness ==
  /\ submits = 1
  /\ Len(messages) = 2
  /\ retryTimer = null
  /\ error = null
  /\ ~isLoading
  /\ DOMAIN net = {}

(* C17: the history of every request the client controller sends alternates  *)
(* user, model, user, model and so ends with a model entry.                   *)
alternates(h) ==
  /\ Len(h) % 2 = 0
  /\ \A k \in 1..Len(h) : h[k].role = (IF k % 2 = 1 THEN "user" ELSE "model")

C17_AlternatingHistory ==
  \A c \in Submitted : alternates(historyOf(c))

(* the entries the transcript positions i.. contribute to the history *)
RECURSIVE turnsFrom(_, _)
turnsFrom(msgs, i) ==
  IF i > Len(msgs) THEN <<>>
  ELSE ( IF msgs[i].role = "user" /\ i # lastUserPos(msgs)
         THEN <<[role |-> "user", text |-> msgs[i].content]>> \o
              ( IF i < Len(msgs) /\ msgs[i + 1].role = "assistant"
                THEN <<[role |-> "model", text |-> msgs[i + 1].content]>>
                ELSE <<>> )
         ELSE <<>> )
       \o turnsFrom(msgs, i + 1)

(* C18: for a payload with pairwise distinct ids the history is the two       *)
(* priming entries followed, for each user message other than the active      *)
(* query in transcript order, by its user entry and, when the next message    *)
(* is an assistant message, the model entry of that message; nothing else.    *)
C18_ExactHistory ==
  \A c \in Submitted :
    distinctIds(payloadOf(c)) =>
      historyOf(c) =
        << [role |-> "user", text |-> acknowledgeText],
           [role |-> "model", text |-> systemPromptText] >> \o turnsFrom(payloadOf(c), 1)

C18_Witness ==
  \E c \in Submitted :
    LET msgs == payloadOf(c)
    IN  /\ distinctIds(msgs)
        /\ Len(msgs) = 3
        /\ msgs[1].role = "user" /\ msgs[2].role = "user" /\ msgs[3].role = "assistant"
        /\ Len(historyOf(c)) = 3
        /\ historyOf(c)[3] = [role |-> "user", text |-> msgs[1].content]

(* C19: a step that accepts a submit starts from a non-blank input with no    *)
(* request in flight, appends one user message with the input as content and  *)
(* an id no message of the transcript has, empties the input field, sets the  *)
(* loading flag, clears the error and adds one request whose body is the      *)
(* new transcript.                                                            *)
C19_AcceptedSubmitStep ==
  submits' # submits =>
    /\ ~isLoading
    /\ ~blankInput
    /\ DOMAIN net = {}
    /\ Len(messages') = Len(messages) + 1
    /\ SubSeq(messages', 1, Len(messages)) = messages
    /\ messages'[Len(messages')].role = "user"
    /\ messages'[Len(messages')].content = input
    /\ \A i \in 1..Len(messages) : messages[i].id # messages'[Len(messages')].id
    /\ input' = <<>>
    /\ isLoading'
    /\ error' = null
    /\ Cardinality(newRequests) = 1
    /\ \A c \in newRequests :
         /\ net'[c].spc = "recv"
         /\ net'[c].body = [parses |-> TRUE, messages |-> messages']

C19_AcceptedSubmit == [][C19_AcceptedSubmitStep]_vars

C19_Witness ==
  /\ submits = 2
  /\ Len(messages) = 3
  /\ isLoading
  /\ error = null
  /\ input = <<>>
  /\ \E c \in DOMAIN net : net[c].spc = "recv" /\ net[c].body.messages = messages

(* C20: when the client has read the JSON body of a non-success response: if  *)
(* the status is 429 and the body has a retryAfter field, the retry timer     *)
(* becomes that number and the error becomes the body's message; otherwise    *)
(* the retry timer is left alone and the error becomes the body's error       *)
(* field, or the fixed text when the body has none.                           *)
C20_ErrorResponseStep ==
  \A c \in DOMAIN calls :
    (calls[c].pc = "json" /\ c \notin DOMAIN calls') =>
      LET response == net[c].resp[1]
      IN  IF response.status = 429 /\ response.body.retryAfter # null
          THEN /\ retryTimer' = response.body.retryAfter
               /\ error' = response.body.message
          ELSE /\ retryTimer' = retryTimer
               /\ error' = ( IF response.body.error # null
                             THEN response.body.error
                             ELSE Some(<<"Failed to get response">>) )

C20_ErrorResponse == [][C20_ErrorResponseStep]_vars

(* the calls that have read nothing of a response body yet *)
BeforeRead == {c \in DOMAIN calls : calls[c].pc \in {"fetch", "json"}}
endsNow(c) == c \in DOMAIN calls /\ c \notin DOMAIN calls'
unexpectedType(r) == r.status \in 200..299 /\ ~includes(r.contentType, <<"text/plain">>)

(* C21: while a call has read nothing of a response body the transcript ends  *)
(* with the user message it submitted; when such a call ends (fetch rejected, *)
(* non-success status, content type other than text/plain) the transcript is  *)
(* left as it is, an error is shown, and for an unexpected content type the   *)
(* error is "Unexpected response format from server".                         *)
C21_NoReplyState ==
  \A c \in BeforeRead :
    /\ messages[Len(messages)].role = "user"
    /\ messages[Len(messages)].id = c

C21_NoReplyStep ==
  \A c \in BeforeRead :
    endsNow(c) =>
      /\ messages' = messages
      /\ error' # null
      /\ (net[c].resp # null /\ unexpectedType(net[c].resp[1]) /\ FetchResolve(c)) =>
           error' = Some(<<"Unexpected response format from server">>)

C21_FailureBeforeContent == []C21_NoReplyState /\ [][C21_NoReplyStep]_vars

C21_Witness ==
  /\ error = Some(<<"Unexpected response format from server">>)
  /\ ~isLoading
  /\ Len(messages) = 2
  /\ messages[2].role = "user"

(* C24: when the client has read a 429 body with a retryAfter that starts a   *)
(* countdown, the error shown once the call has returned is the text the      *)
(* rate-limit branch set: the body's message, or, when the body has none,     *)
(* "Rate limit exceeded. Please wait N seconds before trying again.".         *)
C24_RateLimitErrorStep ==
  \A c \in DOMAIN calls :
    (calls[c].pc = "json" /\ endsNow(c) /\ retryTimer' # retryTimer) =>
      LET body == net[c].resp[1].body
      IN  error' = Some( IF body.message # null /\ body.message[1] # <<>>
                         THEN body.message[1]
                         ELSE <<"Rate limit exceeded. Please wait ">>
                                \o toString(body.retryAfter[1])
                                \o <<" seconds before trying again.">> )

C24_RateLimitErrorKept == [][C24_RateLimitErrorStep]_vars

(* C25: the loading flag is set exactly while a call of sendMessage is in     *)
(* progress, it is set only by a step that accepts a submit, and whenever it  *)
(* is set it is eventually cleared, whatever the outcome of the request.      *)
C25_LoadingState == isLoading <=> DOMAIN calls # {}

C25_LoadingStep == (~isLoading /\ isLoading') => submits' = submits + 1

C25_LoadingEnds ==
  /\ []C25_LoadingState
  /\ [][C25_LoadingStep]_vars
  /\ isLoading ~> ~isLoading

C25_Witness ==
  /\ ~isLoading
  /\ submits = 2
  /\ messages[Len(messages)].role = "assistant"
  /\ error = Some(<<"network error">>)

(* the text decoded from the bytes of request c that the client has read *)
receivedBytes(c) ==
  LET all == concat(net[c].chunks)
  IN  SubSeq(all, 1, Len(all) - Len(net[c].wire))
receivedText(c) == utf8Decode(receivedBytes(c)).text
Errored == {c \in DOMAIN net : net[c].spc = "errored"}

(* C22: once the upstream sequence has failed the output stream stays in its  *)
(* error state and is never closed, the chunks forwarded before the failure   *)
(* stay as they were, and when the client's read fails the assistant message  *)
(* keeps the text of the chunks received so far, an error is shown and the    *)
(* loading flag is cleared.                                                   *)
C22_ErroredState ==
  \A c \in Errored \cap Reading : assistantContent(c) = receivedText(c)

C22_ErroredStep ==
  /\ \A c \in DOMAIN net \cap DOMAIN net' :
       /\ (net[c].spc = "relay" /\ net'[c].spc = "errored") =>
            net'[c].chunks = net[c].chunks
       /\ net[c].spc = "errored" =>
            /\ net'[c].spc = "errored"
            /\ net'[c].chunks = net[c].chunks
            /\ net'[c].pulled = net[c].pulled
  /\ \A c \in Errored \cap Reading :
       endsNow(c) =>
         /\ messages' = messages
         /\ contentOf(calls[c].assistantId[1]) = receivedText(c)
         /\ error' # null
         /\ isLoading' = FALSE

C22_PartialKept == []C22_ErroredState /\ [][C22_ErroredStep]_vars

C22_Witness ==
  /\ error = Some(<<"network error">>)
  /\ ~isLoading
  /\ DOMAIN calls = {}
  /\ messages[Len(messages)].role = "assistant"
  /\ messages[Len(messages)].content = <<"x">>

(* the chunks the relay owes for the fragments pulled so far *)
RECURSIVE chunksFor(_)
chunksFor(frags) ==
  IF frags = <<>> THEN <<>>
  ELSE IF Head(frags) # <<>> THEN <<encode(Head(frags))>> \o chunksFor(Tail(frags))
  ELSE chunksFor(Tail(frags))
isSuffix(s, t) == Len(s) <= Len(t) /\ SubSeq(t, Len(t) - Len(s) + 1, Len(t)) = s

C23_RelayStep ==
  \A c \in DOMAIN net \cap DOMAIN net' :
    /\ Len(net'[c].pulled) <= Len(net[c].pulled) + 1
    /\ isPrefix(net[c].pulled, net'[c].pulled)
    /\ net'[c].spc = "closed" => net[c].spc \in {"relay", "closed"}
    /\ net[c].spc = "closed" =>
         /\ net'[c].spc = "closed"
         /\ net'[c].pulled = net[c].pulled
         /\ net'[c].chunks = net[c].chunks

(* C23 as stated: in every state of the relay every fragment pulled from the  *)
(* upstream is in the output as a chunk of its own, in arrival order.         *)
C23_EveryFragmentForwarded ==
  \A c \in DOMAIN net :
    /\ Len(net[c].chunks) = Len(net[c].pulled)
    /\ \A i \in 1..Len(net[c].pulled) : net[c].chunks[i] = encode(net[c].pulled[i])

(* C23: in every state of the relay the output chunks are the encodings of    *)
(* the fragments with non-empty text pulled so far, one chunk per fragment    *)
(* and in arrival order, a fragment with empty text adds no chunk, the bytes  *)
(* not yet read are a suffix of the chunks' bytes, fragments are pulled one   *)
(* at a time, and a stream is closed from the relaying state only, after      *)
(* which nothing is pulled or enqueued.                                       *)
C23_RelayState ==
  \A c \in DOMAIN net :
    /\ net[c].chunks = chunksFor(net[c].pulled)
    /\ isSuffix(net[c].wire, concat(net[c].chunks))
    /\ net[c].spc \in {"recv", "responded"} => net[c].pulled = <<>>

C23_NonEmptyFragmentForwarded == []C23_RelayState /\ [][C23_RelayStep]_vars

C23_Witness ==
  \E c \in DOMAIN net :
    /\ net[c].spc = "closed"
    /\ net[c].pulled = << <<"x">>, <<"U+00E9">> >>
    /\ net[c].chunks = << <<120>>, <<195, 169>> >>


usersOf(msgs) == SelectSeq(msgs, LAMBDA m : m.role = "user")
earlierUsers(c) == usersOf(SubSeq(payloadOf(c), 1, Len(payloadOf(c)) - 1))
userEntries(c) ==
  SelectSeq(SubSeq(historyOf(c), 3, Len(historyOf(c))), LAMBDA e : e.role = "user")

assistantCount(msgs) == Cardinality({i \in 1..Len(msgs) : msgs[i].role = "assistant"})

(* C27: the transcript starts with the greeting (id 1), message ids are       *)
(* pairwise distinct, every assistant message but the greeting comes right    *)
(* after a user message, so no two assistant messages are adjacent, and the   *)
(* assistant messages besides the greeting are no more than the accepted      *)
(* submits; a step appends at most one assistant message and only for a call  *)
(* in progress.                                                               *)
C27_TranscriptState ==
  /\ Len(messages) >= 1
  /\ messages[1] = greeting
  /\ distinctIds(messages)
  /\ \A i \in 2..Len(messages) :
       messages[i].role = "assistant" => messages[i - 1].role = "user"
  /\ assistantCount(messages) - 1 <= submits
  /\ userCount(messages) = submits

C27_TranscriptStep ==
  /\ assistantCount(messages') <= assistantCount(messages) + 1
  /\ assistantCount(messages') > assistantCount(messages) =>
       /\ DOMAIN calls # {}
       /\ submits' = submits

C27_TranscriptShape == []C27_TranscriptState /\ [][C27_TranscriptStep]_vars

C27_Witness ==
  /\ Len(messages) = 5
  /\ messages[3].role = "assistant"
  /\ messages[5].role = "assistant"
  /\ submits = 2

(* the payload with the same roles and contents and the ids given by position *)
relabel(msgs, ids) == [i \in 1..Len(msgs) |-> [msgs[i] EXCEPT !.id = ids[i]]]
Labelings(n) == [1..n -> PayloadIds]
injective(ids) == \A i, j \in DOMAIN ids : i # j => ids[i] # ids[j]
sameConversation(c, msgs) ==
  /\ chatHistory(msgs) = historyOf(c)
  /\ lastUserMessageOf(msgs).content = net[c].api[1].message

(* C28 as stated: the history and the message of a request are those of every *)
(* payload with the same roles and contents, whatever ids it carries.         *)
C28_AnyIds ==
  \A c \in Submitted :
    \A ids \in Labelings(Len(payloadOf(c))) :
      sameConversation(c, relabel(payloadOf(c), ids))

(* C28: the history and the message of a request whose payload has pairwise   *)
(* distinct ids are those of every payload with the same roles and contents   *)
(* and pairwise distinct ids: the id values do not matter.                    *)
C28_DistinctIds ==
  \A c \in Submitted :
    distinctIds(payloadOf(c)) =>
      \A ids \in Labelings(Len(payloadOf(c))) :
        injective(ids) => sameConversation(c, relabel(payloadOf(c), ids))

C28_Witness ==
  \E c \in Submitted :
    /\ Len(payloadOf(c)) = 3
    /\ payloadOf(c)[1] = [id |-> 3, role |-> "user", content |-> <<"a">>]
    /\ payloadOf(c)[2] = [id |-> 1, role |-> "assistant", content |-> <<"b">>]
    /\ payloadOf(c)[3] = [id |-> 2, role |-> "user", content |-> <<"b">>]
    /\ Len(historyOf(c)) = 4

isChallengeVariant(c) == historyOf(c)[2].text = systemPromptText

(* C29: when the reply read for a request is the refusal sentence quoted in   *)
(* the system prompt of the variant that handled it, the non-domain detector  *)
(* of that variant's page recognises the content of the assistant message.    *)
C29_RefusalRecognised ==
  \A c \in Reading :
    (net[c].api # null /\ assistantContent(c) = refusalIn(historyOf(c)[2].text)) =>
      IF isChallengeVariant(c)
      THEN isNonChallengeResponse(assistantContent(c))
      ELSE isNonLegalResponse(assistantContent(c))
====
